---------------------------- MODULE Spec2Model ----------------------------
(***************************************************************************)
(* Chapter-boundary segmentation engine of StoryGenius                     *)
(* (src/enhanced_character_extractor.py).                                  *)
(*                                                                         *)
(* Strings are sequences of one-character strings.  Offsets are Python's   *)
(* 0-based offsets; Slice(s, a, b) is s[a:b].                              *)
(***************************************************************************)
EXTENDS Integers, Sequences, FiniteSets, TLC

(***************************************************************************)
(* Characters and string helpers                                           *)
(***************************************************************************)
\* A character outside ASCII is written as the string "U+<code point>"; a
\* character is an atom here, so only its identity matters.
NL == "\n"
SP == " "

\* str.strip() and the regex class \s, restricted to the characters used here
IsWs(c) == c \in {SP, NL, "\t", "\r"}

Min(a, b) == IF a <= b THEN a ELSE b
Max(a, b) == IF a >= b THEN a ELSE b

SetMin(S) == CHOOSE x \in S : \A y \in S : x <= y
SetMax(S) == CHOOSE x \in S : \A y \in S : x >= y

\* Python s[a:b] for 0 <= a (b is clamped to len(s), as Python does)
Slice(s, a, b) == SubSeq(s, a + 1, Min(b, Len(s)))

\* Python s[a:]
SliceFrom(s, a) == SubSeq(s, a + 1, Len(s))

\* Python str.strip()
Strip(s) ==
    LET keep == {i \in 1..Len(s) : ~IsWs(s[i])}
    IN  IF keep = {} THEN <<>> ELSE SubSeq(s, SetMin(keep), SetMax(keep))

\* the characters of s that are not whitespace, in order
RECURSIVE NonWs(_)
NonWs(s) ==
    IF s = <<>> THEN <<>>
    ELSE IF IsWs(Head(s)) THEN NonWs(Tail(s)) ELSE <<Head(s)>> \o NonWs(Tail(s))

\* "".join(parts)
RECURSIVE Concat(_)
Concat(parts) == IF parts = <<>> THEN <<>> ELSE Head(parts) \o Concat(Tail(parts))

\* the separator "\n\n"
ParaSep == <<NL, NL>>

\* "\n\n".join(parts)
RECURSIVE JoinPara(_)
JoinPara(parts) ==
    IF parts = <<>> THEN <<>>
    ELSE IF Len(parts) = 1 THEN parts[1]
    ELSE parts[1] \o ParaSep \o JoinPara(Tail(parts))

\* sum(len(s) for s in segments)
RECURSIVE SumLen(_)
SumLen(parts) == IF parts = <<>> THEN 0 ELSE Len(Head(parts)) + SumLen(Tail(parts))

\* all strings over alphabet A of length 0..n
StringsUpTo(A, n) == UNION {[1..k -> A] : k \in 0..n}

\* all lists of 0..n elements of S
ListsUpTo(S, n) == UNION {[1..k -> S] : k \in 0..n}


(***************************************************************************)
(* Regular expressions (Python re, MULTILINE).  A pattern is a tree; Ends  *)
(* gives every offset at which a match that starts at offset i can end.    *)
(* finditer's first match starts at the least offset with a match.         *)
(***************************************************************************)
WsChars == {SP, NL, "\t", "\r"}
Digits == {"0", "1", "2", "3", "4", "5", "6", "7", "8", "9"}

RSet(cs) == [t |-> "set", cs |-> cs]
RBol == [t |-> "bol"]
REol == [t |-> "eol"]
RCat(rs) == [t |-> "cat", rs |-> rs]
RAlt(rs) == [t |-> "alt", rs |-> rs]
\* r{lo,hi}; hi = -1 is unbounded
RRep(r, lo, hi) == [t |-> "rep", r |-> r, lo |-> lo, hi |-> hi]
RStar(r) == RRep(r, 0, -1)
RPlus(r) == RRep(r, 1, -1)
\* a literal word; each element is the set of characters accepted at that place
RWord(sets) == RCat([k \in 1..Len(sets) |-> RSet(sets[k])])

RECURSIVE Ends(_, _, _)
RECURSIVE CatEnds(_, _, _, _)
RECURSIVE RepEnds(_, _, _, _, _, _)
Ends(re, s, i) ==
    CASE re.t = "set" -> IF i < Len(s) /\ s[i + 1] \in re.cs THEN {i + 1} ELSE {}
      [] re.t = "bol" -> IF i = 0 \/ s[i] = NL THEN {i} ELSE {}
      [] re.t = "eol" -> IF i = Len(s) \/ s[i + 1] = NL THEN {i} ELSE {}
      [] re.t = "cat" -> CatEnds(re.rs, 1, s, {i})
      [] re.t = "alt" -> UNION {Ends(re.rs[k], s, i) : k \in DOMAIN re.rs}
      [] re.t = "rep" -> RepEnds(re.r, s, {i}, 0, re.lo, re.hi)
CatEnds(rs, k, s, from) ==
    IF k > Len(rs) \/ from = {} THEN from
    ELSE CatEnds(rs, k + 1, s, UNION {Ends(rs[k], s, j) : j \in from})
RepEnds(r, s, from, k, lo, hi) ==
    (IF k >= lo THEN from ELSE {})
    \cup (IF from = {} \/ k = hi THEN {}
          ELSE RepEnds(r, s, UNION {Ends(r, s, j) : j \in from} \ from, k + 1, lo, hi))

\* match starts of re.finditer(window), as far as the least of them is concerned
MatchStarts(re, w) == {p \in 0..Len(w) : Ends(re, w, p) # {}}

\* named characters of the texts used here
Diamond == "U+25C7"
Jang == "U+C7A5"

\* every character a modelled text can hold
Alphabet == {"a", "b", ".", "1", SP, NL, Diamond, Jang}

\* any character but a newline (the regex dot)
Dot == RSet(Alphabet \ {NL})

WsStar == RStar(RSet(WsChars))
DigitPlus == RPlus(RSet(Digits))
JangHwaBu == RSet({"U+C7A5", "U+D654", "U+BD80"})
Roman == RPlus(RSet({"I", "V", "X", "L", "C", "D", "M", "i", "v", "x", "l", "c", "d", "m"}))
WordPart == RWord(<<{"P", "p"}, {"A", "a"}, {"R", "r"}, {"T", "t"}>>)
WordChapter ==
    RWord(<<{"C", "c"}, {"H", "h"}, {"A", "a"}, {"P", "p"}, {"T", "t"}, {"E", "e"}, {"R", "r"}>>)

\* heading_regex of _split_by_length (IGNORECASE | MULTILINE)
heading_regex ==
    RCat(<<RBol, WsStar,
           RAlt(<<RWord(<<{"U+D504"}, {"U+B864"}, {"U+B85C"}, {"U+ADF8"}>>),
                  RWord(<<{"U+C5D0"}, {"U+D544"}, {"U+B85C"}, {"U+ADF8"}>>),
                  RCat(<<RSet({"U+C81C"}), WsStar, DigitPlus, WsStar, JangHwaBu>>),
                  RCat(<<DigitPlus, WsStar, JangHwaBu>>),
                  RCat(<<RWord(<<{"U+D30C"}, {"U+D2B8"}>>), WsStar, DigitPlus>>),
                  RCat(<<WordPart, WsStar, DigitPlus>>),
                  RCat(<<WordChapter, WsStar, RAlt(<<DigitPlus, Roman>>)>>),
                  RCat(<<RWord(<<{"U+CC55"}, {"U+D130"}>>), WsStar, DigitPlus>>)>>),
           WsStar, REol>>)

\* scene_regex of _split_by_length (MULTILINE)
scene_regex ==
    RCat(<<RBol, WsStar,
           RAlt(<<RRep(RSet({"-"}), 3, -1),
                  RRep(RSet({"*"}), 3, -1),
                  RRep(RSet({"="}), 3, -1),
                  RCat(<<RRep(RSet({"#"}), 1, 6), RPlus(RSet(WsChars)), RPlus(Dot)>>),
                  RPlus(RSet({"U+25C7", "U+25A0", "U+203B", "U+25CB", "U+25C6"}))>>),
           WsStar, REol>>)

\* paragraph_break_regex of _split_by_length
paragraph_break_regex == RRep(RSet({NL}), 2, -1)

SentenceEnd == {".", "!", "?", "U+3002", "U+FF01", "U+FF1F"}

\* sentence_break_regex of _split_by_length
sentence_break_regex == RCat(<<RSet(SentenceEnd), WsStar, RSet({NL})>>)


(***************************************************************************)
(* _ensure_min_length (lines 722-751)                                      *)
(***************************************************************************)
\* a faulty variant: the segment is joined to the buffer without the separator
EnsureOne_Glued(seg, minimum, merged, buffer) ==
    LET buf == buffer \o seg
    IN  IF Len(buf) >= minimum THEN <<Append(merged, Strip(buf)), <<>> >>
        ELSE <<merged, buf>>

\* lines 736-743: one loop iteration, <<merged, buffer>> after the segment seg
EnsureOne(seg, minimum, merged, buffer) ==
    LET buf == IF buffer = <<>> THEN seg ELSE buffer \o ParaSep \o seg
    IN  IF Len(buf) >= minimum THEN <<Append(merged, Strip(buf)), <<>> >>
        ELSE <<merged, buf>>

\* the loop of lines 735-743: <<merged, buffer>> after segments k..len
RECURSIVE EnsureLoop(_, _, _, _, _)
EnsureLoop(segments, k, minimum, merged, buffer) ==
    IF k > Len(segments) THEN <<merged, buffer>>
    ELSE LET r == EnsureOne(segments[k], minimum, merged, buffer)
         IN  EnsureLoop(segments, k + 1, minimum, r[1], r[2])

\* a tail that always stands alone
EnsureTail_Alone(merged, buffer, minimum) ==
    IF buffer # <<>> THEN Append(merged, Strip(buffer)) ELSE merged

\* lines 745-749: what happens to the buffer left after the loop
EnsureTail(merged, buffer, minimum) ==
    IF buffer # <<>>
    THEN IF merged # <<>> /\ Len(buffer) < minimum
         THEN [merged EXCEPT ![Len(merged)] = Strip(@ \o ParaSep \o buffer)]
         ELSE Append(merged, Strip(buffer))
    ELSE merged

ensure_min_length(segments, minimum) ==
    IF segments = <<>> THEN <<>>
    ELSE IF SumLen(segments) <= minimum THEN <<Strip(JoinPara(segments))>>
    ELSE LET r == EnsureLoop(segments, 1, minimum, <<>>, <<>>)
         IN  EnsureTail(r[1], r[2], minimum)

(***************************************************************************)
(* _split_by_length (lines 624-720)                                        *)
(***************************************************************************)
\* lines 653-655: a minimum above the maximum is lowered to the maximum
ClampMin(min_length, max_length) ==
    IF min_length > max_length THEN max_length ELSE min_length

\* a faulty variant: the cut lands on the sentence-terminal character itself
BackscanCut_OnChar(text, current_pos, search_end, lookahead) ==
    LET backscan_region_start == Max(current_pos, search_end - lookahead)
        back_region == Slice(text, backscan_region_start, search_end)
        hits == {i \in 1..Len(back_region) : back_region[i] \in SentenceEnd}
        best_end == IF hits = {} THEN -1 ELSE SetMax(hits) - 1
    IN  IF best_end # -1 THEN backscan_region_start + best_end ELSE search_end

\* lines 702-713: the last sentence-terminal character of the back-scan region
BackscanCut(text, current_pos, search_end, lookahead) ==
    LET backscan_region_start == Max(current_pos, search_end - lookahead)
        back_region == Slice(text, backscan_region_start, search_end)
        hits == {i \in 1..Len(back_region) : back_region[i] \in SentenceEnd}
        best_end == IF hits = {} THEN -1 ELSE SetMax(hits) - 1
    IN  IF best_end # -1 THEN backscan_region_start + best_end + 1 ELSE search_end

\* lines 678-713: the cut of one loop iteration (min_length already clamped)
CutPoint(text, current_pos, min_length, max_length, lookahead) ==
    LET search_start == current_pos + Max(min_length, 1)
        search_end == Min(current_pos + max_length, Len(text))
        window == Slice(text, search_start, search_end)
        strong_points == MatchStarts(heading_regex, window)
        candidate_points == MatchStarts(scene_regex, window)
                            \cup MatchStarts(paragraph_break_regex, window)
                            \cup MatchStarts(sentence_break_regex, window)
    IN  IF strong_points # {} THEN search_start + SetMin(strong_points)
        ELSE IF candidate_points # {} THEN search_start + SetMin(candidate_points)
        ELSE BackscanCut(text, current_pos, search_end, lookahead)

\* lines 715-717: a slice is kept stripped, and only when something is left
AppendStripped(chapters, raw) ==
    IF Strip(raw) # <<>> THEN Append(chapters, Strip(raw)) ELSE chapters

\* the loop of lines 670-718 from current_pos on (min_length already clamped)
RECURSIVE SplitLoop(_, _, _, _, _, _)
SplitLoop(text, current_pos, min_length, max_length, lookahead, chapters) ==
    IF current_pos >= Len(text) THEN chapters
    ELSE IF Len(text) - current_pos <= max_length
         THEN AppendStripped(chapters, SliceFrom(text, current_pos))
    ELSE LET cut == CutPoint(text, current_pos, min_length, max_length, lookahead)
         IN  SplitLoop(text, cut, min_length, max_length, lookahead,
                       AppendStripped(chapters, Slice(text, current_pos, cut)))

\* _split_by_length with the environment already resolved; max_length >= 1
split_by_length(text, max_length, min_length, lookahead) ==
    SplitLoop(text, 0, ClampMin(min_length, max_length), max_length, lookahead, <<>>)


(***************************************************************************)
(* Bounds of the model                                                     *)
(***************************************************************************)
\* micro-chunks handed to the merger
MaxChunks == 3
\* batch_size of the merger (18 in the source, scaled to the chunk count)
MaxBatchSize == 2
\* size of the "chapters" value of one merger reply: its integers, counting
\* an empty or non-list element as one
MaxReplySize == 2
\* merger loop iterations followed (the loop itself has no bound)
MaxBatchNo == 3
\* length of the text given to _split_chapters_with_llm
MaxTextLen == 3
\* chunk_chars, the window stride (at least 8000 in the source, line 356)
MaxChunkChars == 2
\* segments in one sliding-window reply
MaxSegs == 2
\* MIN_CHAPTER_LENGTH and MAX_CHAPTER_LENGTH as configured (8000 and 14000
\* by default, lines 512 and 644)
MaxChapterLength == 2
\* max_iterations of _split_chapters_with_llm (1000 in the source, line 370),
\* scaled with the texts
max_iterations == 6

(***************************************************************************)
(* State                                                                   *)
(***************************************************************************)
VARIABLES
    pc,               \* where the running function is
    micro,            \* _split_chapters_micro_merge: the micro-chunks
    batch_size,       \* _merge_micro_chunks_with_llm: its parameter
    carry_start_idx,  \* _merge_micro_chunks_with_llm: first unresolved index
    groups,           \* _merge_micro_chunks_with_llm: accepted index groups
    batch_no,         \* _merge_micro_chunks_with_llm: batches started
    chapters,         \* the chapter list being built / returned
    text,             \* _split_chapters_with_llm: the input text
    cfg,              \* configuration: chunk_chars, llm_only, min_length, max_length, enforce_min
    carryover,        \* _split_chapters_with_llm: unresolved tail of the last window
    cursor,           \* _split_chapters_with_llm: offset of the next unread character
    stall_count,      \* _split_chapters_with_llm: consecutive stalled iterations
    iterations,       \* _split_chapters_with_llm: loop iterations started
    last_progress_signature,  \* _split_chapters_with_llm: (cursor, carry length)
    abort_count,      \* chapters emitted before the stall abort, -1 without one (history)
    last,             \* the latest reply: its kind, the groups it got accepted (history)
    all_failed,       \* every collaborator call so far raised (history)
    all_empty,        \* every reply so far was the empty result (history)
    current_pos,      \* _split_by_length: offset of the next chapter
    lookahead,        \* _split_by_length: its parameter
    segments,         \* _ensure_min_length: its parameter
    minimum,          \* _ensure_min_length: its parameter
    merged,           \* _ensure_min_length: the chapters flushed so far
    buffer,           \* _ensure_min_length, _micro_split_text: the text joined since the last flush
    seg_no,           \* _ensure_min_length: segments consumed by the loop
    target_chars,     \* _micro_split_text: its parameter
    hard_max_chars,   \* _micro_split_text: its parameter
    paragraphs,       \* _micro_split_text: the paragraphs of the text
    para_idx,         \* _micro_split_text: paragraphs consumed by the loop
    chunks,           \* _micro_split_text: the chunks flushed so far
    filtered_starts,  \* _auto_detect_chapters: the boundaries kept
    analyzed_chapters,  \* extract_chapters_enhanced: the records built so far
    chapter_no,       \* extract_chapters_enhanced: the loop counter i
    callback_raised,  \* a progress callback invocation has raised (history)
    cleaned_text,     \* _clean_text: its result
    cleaned_again,    \* _clean_text: its result for the cleaned text
    progress_current  \* the `current` of the latest progress callback invocation, 0 before the first

mergeVars == <<micro, batch_size, carry_start_idx, groups, batch_no>>
histVars == <<last, all_failed, all_empty>>
winVars == <<text, cfg, carryover, cursor, stall_count, iterations, last_progress_signature,
             abort_count>>
lenVars == <<current_pos, lookahead>>
minVars == <<segments, minimum, merged, buffer, seg_no>>
microVars == <<target_chars, hard_max_chars, paragraphs, para_idx, chunks>>
extractVars == <<analyzed_chapters, chapter_no, callback_raised>>
cleanVars == <<cleaned_text, cleaned_again>>
moreVars == <<microVars, filtered_starts, extractVars, cleanVars, progress_current>>
vars == <<pc, mergeVars, chapters, histVars, winVars, lenVars, minVars, moreVars>>

\* the variables of _micro_split_text, _auto_detect_chapters,
\* extract_chapters_enhanced and _clean_text while another function runs
MicroIdle ==
    /\ target_chars = 1
    /\ hard_max_chars = 1
    /\ paragraphs = <<>>
    /\ para_idx = 0
    /\ chunks = <<>>

ExtractIdle ==
    /\ analyzed_chapters = <<>>
    /\ chapter_no = 0
    /\ callback_raised = FALSE

CleanIdle ==
    /\ cleaned_text = <<>>
    /\ cleaned_again = <<>>

MoreIdle ==
    /\ MicroIdle
    /\ filtered_starts = <<>>
    /\ ExtractIdle
    /\ CleanIdle
    /\ progress_current = 0

\* the variables of _split_by_length and _ensure_min_length while another
\* function runs
LenIdle ==
    /\ current_pos = 0
    /\ lookahead = 0

MinIdle ==
    /\ segments = <<>>
    /\ minimum = 0
    /\ merged = <<>>
    /\ buffer = <<>>
    /\ seg_no = 0

\* the variables of the sliding-window splitter while another function runs
WinIdle ==
    /\ text = <<>>
    /\ cfg = [chunk_chars |-> 1, llm_only |-> TRUE, min_length |-> 1, max_length |-> 1,
              enforce_min |-> FALSE]
    /\ carryover = <<>>
    /\ cursor = 0
    /\ stall_count = 0
    /\ iterations = 0
    /\ last_progress_signature = <<-1, -1>>
    /\ abort_count = -1

(***************************************************************************)
(* _merge_micro_chunks_with_llm (lines 177-286)                            *)
(***************************************************************************)
\* list(range(a, b))
Range(a, b) == [k \in 1..Max(b - a, 0) |-> a + k - 1]

\* sorted(xs) for a list of integers
RECURSIVE Sorted(_)
Sorted(xs) ==
    IF xs = <<>> THEN <<>>
    ELSE LET m == SetMin({xs[i] : i \in 1..Len(xs)})
             at == SetMin({i \in 1..Len(xs) : xs[i] = m})
         IN  <<m>> \o Sorted(SubSeq(xs, 1, at - 1) \o SubSeq(xs, at + 1, Len(xs)))

\* a JSON value where an integer is expected: an integer, or anything else
\* (missing, null, a string, a float)
IntVal(v) == [isint |-> TRUE, v |-> v]
NoInt == [isint |-> FALSE, v |-> 0]

\* one element of "chapters": a list of integers (non-integers are filtered
\* out at line 266), or a value that cannot be iterated (a number)
GroupVal(xs) == [list |-> TRUE, xs |-> xs]
BadGroup == [list |-> FALSE, xs |-> <<>>]

\* a reply: the call raised (transport error, empty content, text that is not a
\* JSON object), or a JSON object with "chapters" and "leftover_from_index"
FailReply == [kind |-> "fail", chapters |-> <<>>, leftover |-> NoInt]
OkReply(c, l) == [kind |-> "ok", chapters |-> c, leftover |-> l]

\* the elements a reply's "chapters" may hold for the batch [lo, hi), of size
\* 1..size: lists of integers in and around the batch, or a non-list
GroupInputs(lo, hi, size) ==
    {GroupVal(xs) : xs \in ListsUpTo((lo - 1)..hi, size)} \cup {BadGroup}

GroupSize(g) == Max(Len(g.xs), 1)

\* the "chapters" values of size 0..size
RECURSIVE ChaptersInputs(_, _, _)
ChaptersInputs(lo, hi, size) ==
    IF size <= 0 THEN {<<>>}
    ELSE {<<>>} \cup
         UNION {{<<g>> \o rest : rest \in ChaptersInputs(lo, hi, size - GroupSize(g))} :
                   g \in GroupInputs(lo, hi, size)}

LeftoverInputs(lo, hi) == {NoInt} \cup {IntVal(v) : v \in (lo - 1)..(hi + 1)}

MergeReplies(lo, hi) ==
    {FailReply} \cup
    {OkReply(c, l) : c \in ChaptersInputs(lo, hi, MaxReplySize),
                     l \in LeftoverInputs(lo, hi)}

\* lines 260-263: the effective leftover_from
EffectiveLeftover(leftover, carry, end_idx) ==
    LET l1 == IF ~leftover.isint \/ leftover.v < carry THEN end_idx ELSE leftover.v
    IN  Min(l1, end_idx)

\* a faulty variant: the indices are checked against the batch only
GroupAccepted_InRange(safe, carry, end_idx) ==
    \A i \in 1..Len(safe) : carry <= safe[i] /\ safe[i] < end_idx

\* lines 270-273: does the group pass validation?
GroupAccepted(safe, carry, end_idx) ==
    /\ \A i \in 1..Len(safe) : carry <= safe[i] /\ safe[i] < end_idx
    /\ LET safe_sorted == Sorted(safe)
       IN  \A i \in 1..(Len(safe_sorted) - 1) : safe_sorted[i] + 1 = safe_sorted[i + 1]

\* lines 265-274: the loop over the reply's groups from the k-th on; raised is
\* set when a group cannot be iterated (the TypeError lands in line 281)
RECURSIVE AcceptGroups(_, _, _, _, _)
AcceptGroups(batch_groups, k, carry, end_idx, acc) ==
    IF k > Len(batch_groups) THEN [groups |-> acc, raised |-> FALSE]
    ELSE LET g == batch_groups[k]
         IN  IF ~g.list THEN [groups |-> acc, raised |-> TRUE]
             ELSE IF g.xs = <<>> THEN AcceptGroups(batch_groups, k + 1, carry, end_idx, acc)
             ELSE IF GroupAccepted(g.xs, carry, end_idx)
                  THEN AcceptGroups(batch_groups, k + 1, carry, end_idx, Append(acc, Sorted(g.xs)))
                  ELSE AcceptGroups(batch_groups, k + 1, carry, end_idx, acc)

\* lines 276-279: where the next batch starts after a processed reply
NextCarry(leftover_from, end_idx) ==
    IF leftover_from >= end_idx THEN end_idx ELSE leftover_from

\* a faulty except branch: the batch is dropped
FallbackGroups_Drop(acc, batch_indices) == acc

\* lines 281-284: the except branch
FallbackGroups(acc, batch_indices) == Append(acc, batch_indices)

\* lines 198-284: one iteration of the while loop, for one reply; accepted
\* counts the groups of the reply that passed validation
MergeStep(r, gs, carry, n, bsize) ==
    LET end_idx == Min(carry + bsize, n)
        batch_indices == Range(carry, end_idx)
    IN  IF r.kind = "fail"
        THEN [groups |-> FallbackGroups(gs, batch_indices), carry |-> end_idx,
              accepted |-> 0]
        ELSE LET leftover_from == EffectiveLeftover(r.leftover, carry, end_idx)
                 res == AcceptGroups(r.chapters, 1, carry, end_idx, gs)
             IN  IF res.raised
                 THEN [groups |-> FallbackGroups(res.groups, batch_indices),
                       carry |-> end_idx, accepted |-> Len(res.groups) - Len(gs)]
                 ELSE [groups |-> res.groups, carry |-> NextCarry(leftover_from, end_idx),
                       accepted |-> Len(res.groups) - Len(gs)]

\* the empty result of the merge protocol: {"chapters": []}
IsEmptyMergeReply(r) == r = OkReply(<<>>, NoInt)


(***************************************************************************)
(* _split_chapters_micro_merge (lines 288-318)                             *)
(***************************************************************************)
\* The text of micro-chunk i (0-based) is one character naming the chunk, so
\* that a chapter shows which chunks it holds, in which order.
ChunkText(i) == <<ToString(i)>>
MicroOf(n) == [k \in 1..n |-> ChunkText(k - 1)]

\* a faulty variant: an index is taken again although a group before used it
RECURSIVE TakeUnused_Again(_, _, _, _, _)
TakeUnused_Again(mc, group, k, used, parts) ==
    IF k > Len(group) THEN [parts |-> parts, used |-> used]
    ELSE LET idx == group[k]
         IN  IF 0 <= idx /\ idx < Len(mc)
             THEN TakeUnused_Again(mc, group, k + 1, used \cup {idx}, Append(parts, mc[idx + 1]))
             ELSE TakeUnused_Again(mc, group, k + 1, used, parts)

\* lines 305-309: the texts of a group's indices not used before, from the
\* k-th index on
RECURSIVE TakeUnused(_, _, _, _, _)
TakeUnused(mc, group, k, used, parts) ==
    IF k > Len(group) THEN [parts |-> parts, used |-> used]
    ELSE LET idx == group[k]
         IN  IF 0 <= idx /\ idx < Len(mc) /\ idx \notin used
             THEN TakeUnused(mc, group, k + 1, used \cup {idx}, Append(parts, mc[idx + 1]))
             ELSE TakeUnused(mc, group, k + 1, used, parts)

\* lines 304-311: the loop over the index groups from the k-th on
RECURSIVE JoinGroups(_, _, _, _, _)
JoinGroups(mc, index_groups, k, used, acc) ==
    IF k > Len(index_groups) THEN [chapters |-> acc, used |-> used]
    ELSE LET t == TakeUnused(mc, index_groups[k], 1, used, <<>>)
         IN  JoinGroups(mc, index_groups, k + 1, t.used,
                        IF t.parts # <<>> THEN Append(acc, Strip(JoinPara(t.parts)))
                        ELSE acc)

\* [x for x in xs if x]
RECURSIVE NonEmpty(_)
NonEmpty(xs) ==
    IF xs = <<>> THEN <<>>
    ELSE IF Head(xs) # <<>> THEN <<Head(xs)>> \o NonEmpty(Tail(xs)) ELSE NonEmpty(Tail(xs))

\* lines 313-316: chunks no group used are joined into a trailing chapter
AppendLeftovers(mc, acc, used) ==
    LET rest == {i \in 0..(Len(mc) - 1) : i \notin used}
        RECURSIVE Pick(_)
        Pick(i) == IF i >= Len(mc) THEN <<>>
                   ELSE IF i \in rest THEN <<mc[i + 1]>> \o Pick(i + 1) ELSE Pick(i + 1)
        leftovers == Pick(0)
    IN  IF leftovers # <<>> THEN Append(acc, Strip(JoinPara(leftovers))) ELSE acc

\* line 299: text.strip(), the whole input as one chapter.  The input is not
\* kept apart from its chunks here: it is written as the chunks in order.
WholeText(mc) == Strip(JoinPara(mc))

\* lines 297-318: the chapters built from the merger's groups
CombineGroups(mc, index_groups) ==
    IF index_groups = <<>>
    THEN IF WholeText(mc) # <<>> THEN <<WholeText(mc)>> ELSE <<>>
    ELSE LET j == JoinGroups(mc, index_groups, 1, {}, <<>>)
         IN  NonEmpty(AppendLeftovers(mc, j.chapters, j.used))

(***************************************************************************)
(* The micro-merge strategy as a state machine: one step per collaborator  *)
(* call.                                                                   *)
(***************************************************************************)
\* the 40-chunk example of spec section 8 and the default batch_size
ExampleChunks == 40
default_batch_size == 18

n == Len(micro)

\* no reply yet
NoLast == [kind |-> "none", accepted |-> 0]

InitMerge ==
    /\ pc = "micro_merge"
    /\ \E k \in 0..MaxChunks, b \in 1..MaxBatchSize :
          micro = MicroOf(k) /\ batch_size = b
    /\ carry_start_idx = 0
    /\ groups = <<>>
    /\ batch_no = 0
    /\ chapters = <<>>
    /\ last = NoLast
    /\ all_failed = TRUE
    /\ all_empty = TRUE
    /\ WinIdle
    /\ LenIdle
    /\ MinIdle
    /\ MoreIdle

\* the example run: 40 chunks in batches of 18
InitExample ==
    /\ pc = "micro_merge"
    /\ micro = MicroOf(ExampleChunks)
    /\ batch_size = default_batch_size
    /\ carry_start_idx = 0
    /\ groups = <<>>
    /\ batch_no = 0
    /\ chapters = <<>>
    /\ last = NoLast
    /\ all_failed = TRUE
    /\ all_empty = TRUE
    /\ WinIdle
    /\ LenIdle
    /\ MinIdle
    /\ MoreIdle

\* the replies followed for a batch: every reply for the small inputs, the
\* failing call and the empty result for the 40-chunk example
RepliesFor(lo, hi) ==
    IF n > MaxChunks + 1 THEN {FailReply, OkReply(<<>>, NoInt)} ELSE MergeReplies(lo, hi)

\* lines 291-293: the micro-split gave nothing
MicroMergeEmpty ==
    /\ pc = "micro_merge"
    /\ micro = <<>>
    /\ chapters' = <<>>
    /\ pc' = "done"
    /\ UNCHANGED <<mergeVars, histVars, winVars, lenVars, minVars, moreVars>>

\* line 296: the merger is called (lines 189-197)
MicroMergeStart ==
    /\ pc = "micro_merge"
    /\ micro # <<>>
    /\ pc' = "merge"
    /\ UNCHANGED <<mergeVars, chapters, histVars, winVars, lenVars, minVars, moreVars>>

\* lines 198-284: one batch, with the collaborator's reply r
MergeBatch ==
    /\ pc = "merge"
    /\ carry_start_idx < n
    /\ batch_no < MaxBatchNo
    /\ \E r \in RepliesFor(carry_start_idx, Min(carry_start_idx + batch_size, n)) :
       \E st \in {MergeStep(r, groups, carry_start_idx, n, batch_size)} :
              /\ groups' = st.groups
              /\ carry_start_idx' = st.carry
              /\ last' = [kind |-> r.kind, accepted |-> st.accepted]
              /\ all_failed' = (all_failed /\ r.kind = "fail")
              /\ all_empty' = (all_empty /\ IsEmptyMergeReply(r))
    /\ batch_no' = batch_no + 1
    /\ progress_current' = batch_no + 1
    /\ UNCHANGED <<pc, micro, batch_size, chapters, winVars, lenVars, minVars, microVars,
                   filtered_starts, extractVars, cleanVars>>

\* line 286 and lines 297-318: the merger returns, the groups become chapters
MicroMergeFinish ==
    /\ pc = "merge"
    /\ carry_start_idx >= n
    /\ chapters' = CombineGroups(micro, groups)
    /\ pc' = "done"
    /\ UNCHANGED <<mergeVars, histVars, winVars, lenVars, minVars, moreVars>>

NextMerge == MicroMergeEmpty \/ MicroMergeStart \/ MergeBatch \/ MicroMergeFinish

SpecMerge == (InitMerge \/ InitExample) /\ [][NextMerge]_vars


(***************************************************************************)
(* Properties of the micro-merge strategy                                  *)
(***************************************************************************)
\* the merger has returned its groups
MergerReturned == pc \in {"merge", "done"} /\ carry_start_idx >= n

\* the chunk indices read off the returned chapters, chapter by chapter
ChunkIndex(c) == CHOOSE i \in 0..(n - 1) : ChunkText(i) = <<c>>
IndicesOf(t) == [k \in 1..Len(NonWs(t)) |-> ChunkIndex(NonWs(t)[k])]
ChapterIndices == IndicesOf(Concat(chapters))

\* how often x occurs in the list xs
Count(xs, x) == Cardinality({k \in 1..Len(xs) : xs[k] = x})

\* the indices of all groups, in order
RECURSIVE Flatten(_)
Flatten(gs) == IF gs = <<>> THEN <<>> ELSE Head(gs) \o Flatten(Tail(gs))

\* ceil(a / b)
CeilDiv(a, b) == (a + b - 1) \div b

\* C2 (merger half): with a collaborator that always returns {"chapters": []}
\* the merger returns, for a non-empty chunk list, a non-empty list of groups in
\* which no chunk index is missing.
C2_MergerStallCovers ==
    (MergerReturned /\ all_empty /\ n > 0) =>
        /\ groups # <<>>
        /\ \A i \in 0..(n - 1) : Count(Flatten(groups), i) >= 1

\* C3: every iteration of the merger's loop leaves carry_start_idx strictly
\* greater than it found it, whatever the reply.
C3_MergerProgress ==
    [][(pc = "merge" /\ batch_no' = batch_no + 1) => carry_start_idx' > carry_start_idx]_vars

\* a strictly ascending run of consecutive integers within [lo, hi)
IsRun(g, lo, hi) ==
    /\ g # <<>>
    /\ \A i \in 1..Len(g) : lo <= g[i] /\ g[i] < hi
    /\ \A i \in 1..(Len(g) - 1) : g[i + 1] = g[i] + 1

\* the group of a reply holds no index outside [lo, hi), no gap and no
\* repeated index
Usable(xs, lo, hi) ==
    LET S == {xs[i] : i \in 1..Len(xs)}
    IN  /\ xs # <<>>
        /\ S \subseteq lo..(hi - 1)
        /\ Cardinality(S) = Len(xs)
        /\ S = SetMin(S)..SetMax(S)

C21_NoDuplicateClaims ==
    \A i \in 0..(n - 1) : Count(Flatten(groups), i) <= 1

\* C22: in each batch no accepted group contains an index at or after that
\* batch's effective leftover_from_index, which is where the next batch starts
\* (lines 276-279).
C22_LeftoverRespected ==
    [][(pc = "merge" /\ batch_no' = batch_no + 1 /\ last'.kind = "ok") =>
          \A k \in (Len(groups) + 1)..Len(groups') :
             \A i \in 1..Len(groups'[k]) : groups'[k][i] < carry_start_idx']_vars

\* C4: in the chapters _split_chapters_micro_merge returns, every micro-chunk
\* 0..len(micro)-1 gives its text to exactly one chapter, whatever the replies.
C4_MicroMergeCoverage ==
    pc = "done" =>
        /\ Len(ChapterIndices) = n
        /\ \A i \in 0..(n - 1) : Count(ChapterIndices, i) = 1

\* C4 witness: a run has returned where two accepted groups claimed the same
\* chunk and another chunk was claimed by no group (it went to the trailing
\* chapter).
C4_Witness ==
    /\ pc = "done"
    /\ \E i \in 0..(n - 1) : Count(Flatten(groups), i) >= 2
    /\ \E i \in 0..(n - 1) : Count(Flatten(groups), i) = 0
    /\ Len(chapters) >= 2

\* C5: the chapters _split_chapters_micro_merge returns are in text order: the
\* chunk indices read chapter by chapter are strictly ascending.
C5_MicroMergeOrder ==
    pc = "done" =>
        \A k \in 1..(Len(ChapterIndices) - 1) : ChapterIndices[k] < ChapterIndices[k + 1]

\* C9: when every collaborator call fails, the merger returns exactly
\* ceil(n / batch_size) groups, the k-th being the whole index range of the
\* k-th batch.
C9_AllFailGroups ==
    (MergerReturned /\ all_failed) =>
        /\ Len(groups) = CeilDiv(n, batch_size)
        /\ \A k \in 1..Len(groups) :
              groups[k] = Range((k - 1) * batch_size, Min(k * batch_size, n))

\* C9 witness: the 40-chunk example has returned after failing calls only,
\* with 3 groups.
C9_Witness ==
    /\ MergerReturned
    /\ all_failed
    /\ n = ExampleChunks
    /\ batch_size = default_batch_size
    /\ Len(groups) = 3

\* C10: a reply that parses but yields no valid group makes the merger append
\* the whole current batch as one group, as a failing call does.
C10_UnusableReplyFallsBack ==
    [][(pc = "merge" /\ batch_no' = batch_no + 1 /\ last'.kind = "ok" /\ last'.accepted = 0)
         => groups' = Append(groups, Range(carry_start_idx,
                                           Min(carry_start_idx + batch_size, n)))]_vars


(***************************************************************************)
(* _split_chapters_with_llm (lines 320-558)                                *)
(***************************************************************************)
\* max_stall, line 366
max_stall == 2
\* the default lookahead of _split_by_length, line 629
default_lookahead == 4000
\* the default max_length of _split_by_length, line 644
default_max_length == 14000

\* one element of "segments": start and end after int(seg.get(..., 0)); an
\* element that is no object or holds no numbers is skipped like Seg(0, 0)
Seg(a, b) == [start |-> a, end |-> b]

\* a reply: the call raised (also: empty content, no JSON object, "segments"
\* not a list), or a JSON object with "segments" and "leftover_from"
WinFail == [kind |-> "fail", segments |-> <<>>, leftover |-> NoInt]
WinOk(segs, l) == [kind |-> "ok", segments |-> segs, leftover |-> l]

\* the replies followed for a window of length wlen: segments inside the
\* window and one past it, and the segment without numbers, in any order
SegInputs(wlen) ==
    {Seg(0, 0)} \cup {s \in {Seg(a, b) : a \in 0..wlen, b \in 0..(wlen + 1)} : s.start < s.end}

WinReplies(wlen) ==
    {WinFail} \cup
    {WinOk(segs, l) : segs \in ListsUpTo(SegInputs(wlen), MaxSegs),
                      l \in {NoInt} \cup {IntVal(v) : v \in (-1)..(wlen + 1)}}

\* the empty result of the sliding-window protocol:
\* {"segments": [], "leftover_from": <window length>}
IsEmptyWinReply(r, wlen) == r = WinOk(<<>>, IntVal(wlen))

\* lines 453-458: the effective leftover_from
EffectiveLeftoverFrom(leftover, wlen) ==
    Min(IF ~leftover.isint \/ leftover.v < 0 THEN wlen ELSE leftover.v, wlen)

\* a faulty variant: a segment may start before the end of the one before
SegmentAccepted_Overlap(seg, wlen, last_end, leftover_from) ==
    /\ 0 <= seg.start /\ seg.start < seg.end /\ seg.end <= wlen
    /\ seg.end <= leftover_from

\* line 470: does the segment pass validation?
SegmentAccepted(seg, wlen, last_end, leftover_from) ==
    /\ 0 <= seg.start /\ seg.start < seg.end /\ seg.end <= wlen
    /\ seg.start >= last_end
    /\ seg.end <= leftover_from

\* lines 461-474: the loop over the reply's segments from the k-th on
RECURSIVE AcceptSegments(_, _, _, _, _, _)
AcceptSegments(segs, k, window, leftover_from, last_end, acc) ==
    IF k > Len(segs) THEN acc
    ELSE LET seg == segs[k]
             chapter_text == Strip(Slice(window, seg.start, seg.end))
         IN  IF SegmentAccepted(seg, Len(window), last_end, leftover_from)
                /\ chapter_text # <<>>
             THEN AcceptSegments(segs, k + 1, window, leftover_from, seg.end,
                                 Append(acc, chapter_text))
             ELSE AcceptSegments(segs, k + 1, window, leftover_from, last_end, acc)

\* line 477: the next carryover
NewCarry(window, leftover_from) == SliceFrom(window, leftover_from)

\* the window of an iteration, line 385
WindowOf(txt, carry, cur, chunk) == carry \o Slice(txt, cur, Min(cur + chunk, Len(txt)))

\* lines 516-519: the parts of the length split, stripped, the empty ones left out
RECURSIVE StrippedParts(_)
StrippedParts(parts) ==
    IF parts = <<>> THEN <<>>
    ELSE IF Strip(Head(parts)) # <<>> THEN <<Strip(Head(parts))>> \o StrippedParts(Tail(parts))
    ELSE StrippedParts(Tail(parts))

\* lines 503-519: what the stall abort adds to the chapters
StallRemainder(chs, remainder, c) ==
    IF remainder = <<>> THEN chs
    ELSE IF c.llm_only THEN Append(chs, remainder)
    ELSE chs \o StrippedParts(split_by_length(remainder, c.max_length, c.min_length,
                                               default_lookahead))

\* lines 452-520: the try block for a reply that parsed.  st holds chapters,
\* carryover, cursor, stall_count, sig (last_progress_signature); the result
\* adds brk (the loop was left by break) and abort (chapters emitted before a
\* stall abort, -1 without one).
WinProcess(r, txt, c, st) ==
    LET window == WindowOf(txt, st.carryover, st.cursor, c.chunk_chars)
        text_len == Len(txt)
        prev_chapters_len == Len(st.chapters)
        prev_carry_len == Len(st.carryover)
        leftover_from == EffectiveLeftoverFrom(r.leftover, Len(window))
        chs == AcceptSegments(r.segments, 1, window, leftover_from, 0, st.chapters)
        new_carry == NewCarry(window, leftover_from)
        progress_signature == <<st.cursor, Len(new_carry)>>
        cur == Min(st.cursor + c.chunk_chars, text_len)
        sig == IF progress_signature = st.sig /\ Len(new_carry) = Len(st.carryover)
               THEN st.sig ELSE progress_signature
        no_new_chapters == Len(chs) = prev_chapters_len
        no_carry_shrink == Len(new_carry) >= prev_carry_len
        no_more_source == cur >= text_len
        stall == IF no_new_chapters /\ no_carry_shrink /\ no_more_source
                 THEN st.stall_count + 1 ELSE 0
        remainder == Strip(new_carry \o SliceFrom(txt, cur))
    IN  IF cur >= text_len /\ Strip(new_carry) = <<>>
        THEN [chapters |-> chs, carryover |-> new_carry, cursor |-> cur,
              stall_count |-> st.stall_count, sig |-> sig, brk |-> TRUE, abort |-> -1]
        ELSE IF stall >= max_stall
        THEN [chapters |-> StallRemainder(chs, remainder, c), carryover |-> new_carry,
              cursor |-> cur, stall_count |-> stall, sig |-> sig, brk |-> TRUE,
              abort |-> Len(chs)]
        ELSE [chapters |-> chs, carryover |-> new_carry, cursor |-> cur,
              stall_count |-> stall, sig |-> sig, brk |-> FALSE, abort |-> -1]

\* a faulty variant: in LLM-only mode the failed window stays in the carryover
WinExcept_KeepCarry(txt, c, st) ==
    LET window == WindowOf(txt, st.carryover, st.cursor, c.chunk_chars)
        cur == Min(st.cursor + c.chunk_chars, Len(txt))
    IN  [chapters |-> AppendStripped(st.chapters, window), carryover |-> window,
         cursor |-> cur, stall_count |-> st.stall_count, sig |-> st.sig,
         brk |-> FALSE, abort |-> -1]

\* lines 522-542: the except branch
WinExcept(txt, c, st) ==
    LET window == WindowOf(txt, st.carryover, st.cursor, c.chunk_chars)
        cur == Min(st.cursor + c.chunk_chars, Len(txt))
        fallback_parts == split_by_length(window, c.max_length, c.min_length,
                                          default_lookahead)
    IN  IF c.llm_only
        THEN [chapters |-> AppendStripped(st.chapters, window), carryover |-> <<>>,
              cursor |-> cur, stall_count |-> st.stall_count, sig |-> st.sig,
              brk |-> FALSE, abort |-> -1]
        ELSE IF fallback_parts # <<>>
        THEN [chapters |-> Append(st.chapters, fallback_parts[1]),
              carryover |-> JoinPara(Tail(fallback_parts)),
              cursor |-> cur, stall_count |-> st.stall_count, sig |-> st.sig,
              brk |-> FALSE, abort |-> -1]
        ELSE [chapters |-> st.chapters, carryover |-> st.carryover,
              cursor |-> cur, stall_count |-> st.stall_count, sig |-> st.sig,
              brk |-> FALSE, abort |-> -1]

\* lines 385-542: one loop iteration that calls the collaborator
WinStep(r, txt, c, st) ==
    IF r.kind = "fail" THEN WinExcept(txt, c, st) ELSE WinProcess(r, txt, c, st)

\* lines 544-556: after the loop
AfterLoop(chs, carry, c) ==
    LET with_carry == AppendStripped(chs, carry)
    IN  IF ~c.llm_only /\ c.enforce_min
        THEN ensure_min_length(with_carry, c.min_length)
        ELSE with_carry

(***************************************************************************)
(* The sliding-window strategy as a state machine: one step per loop       *)
(* iteration.                                                              *)
(***************************************************************************)
\* the characters of the texts given to the splitter
WinChars == {"a", "b", SP}

Configs ==
    {[chunk_chars |-> k, llm_only |-> TRUE, min_length |-> 1, max_length |-> 1,
      enforce_min |-> FALSE] : k \in 1..MaxChunkChars}
    \cup
    {c \in [chunk_chars : {MaxChunkChars}, llm_only : {FALSE},
             min_length : 1..MaxChapterLength, max_length : 1..MaxChapterLength,
             enforce_min : BOOLEAN] : c.min_length <= c.max_length}

\* the variables of the merger while another function runs
MergeIdle ==
    /\ micro = <<>>
    /\ batch_size = 1
    /\ carry_start_idx = 0
    /\ groups = <<>>
    /\ batch_no = 0

InitWin ==
    /\ pc = "split_with_llm"
    /\ text \in StringsUpTo(WinChars, MaxTextLen)
    /\ cfg \in Configs
    /\ chapters = <<>>
    /\ carryover = <<>>
    /\ cursor = 0
    /\ stall_count = 0
    /\ iterations = 0
    /\ last_progress_signature = <<-1, -1>>
    /\ abort_count = -1
    /\ last = NoLast
    /\ all_failed = TRUE
    /\ all_empty = TRUE
    /\ MergeIdle
    /\ LenIdle
    /\ MinIdle
    /\ MoreIdle

WinState ==
    [chapters |-> chapters, carryover |-> carryover, cursor |-> cursor,
     stall_count |-> stall_count, sig |-> last_progress_signature]

\* the while condition of line 376
LoopCond(cur, carry) == cur < Len(text) \/ carry # <<>>

\* lines 335-336: no text, nothing to split
WinEmptyText ==
    /\ pc = "split_with_llm"
    /\ text = <<>>
    /\ pc' = "done"
    /\ UNCHANGED <<mergeVars, chapters, histVars, winVars, lenVars, minVars, moreVars>>

\* lines 338-374: the loop is entered
WinStart ==
    /\ pc = "split_with_llm"
    /\ text # <<>>
    /\ pc' = "window"
    /\ UNCHANGED <<mergeVars, chapters, histVars, winVars, lenVars, minVars, moreVars>>

\* a faulty variant: past the iteration bound the count starts again and the
\* loop goes on
WinIterationCap_Restart ==
    /\ pc = "window"
    /\ iterations + 1 > max_iterations
    /\ iterations' = 0
    /\ UNCHANGED <<pc, chapters, mergeVars, histVars, text, cfg, carryover, cursor,
                   stall_count, last_progress_signature, abort_count, lenVars, minVars,
                   moreVars>>

\* lines 377-383: the iteration bound is passed, the rest is emitted
WinIterationCap ==
    /\ pc = "window"
    /\ iterations + 1 > max_iterations
    /\ iterations' = iterations + 1
    /\ chapters' = AppendStripped(chapters, carryover \o SliceFrom(text, cursor))
    /\ pc' = "after_loop"
    /\ UNCHANGED <<mergeVars, histVars, text, cfg, carryover, cursor, stall_count,
                   last_progress_signature, abort_count, lenVars, minVars, moreVars>>

\* lines 377-542: one iteration, with the collaborator's reply r
WinIterate ==
    /\ pc = "window"
    /\ iterations + 1 <= max_iterations
    /\ iterations' = iterations + 1
    /\ progress_current' = iterations + 1
    /\ \E wlen \in {Len(WindowOf(text, carryover, cursor, cfg.chunk_chars))} :
       \E r \in WinReplies(wlen) :
       \E st \in {WinStep(r, text, cfg, WinState)} :
              /\ chapters' = st.chapters
              /\ carryover' = st.carryover
              /\ cursor' = st.cursor
              /\ stall_count' = st.stall_count
              /\ last_progress_signature' = st.sig
              /\ abort_count' = st.abort
              /\ pc' = IF st.brk \/ ~LoopCond(st.cursor, st.carryover)
                       THEN "after_loop" ELSE "window"
              /\ last' = [kind |-> r.kind, accepted |-> Len(st.chapters) - Len(chapters)]
              /\ all_failed' = (all_failed /\ r.kind = "fail")
              /\ all_empty' = (all_empty /\ IsEmptyWinReply(r, wlen))
    /\ UNCHANGED <<mergeVars, text, cfg, lenVars, minVars, microVars,
                   filtered_starts, extractVars, cleanVars>>

\* lines 544-558: the rest of the function after the loop
WinFinish ==
    /\ pc = "after_loop"
    /\ chapters' = AfterLoop(chapters, carryover, cfg)
    /\ pc' = "done"
    /\ UNCHANGED <<mergeVars, histVars, winVars, lenVars, minVars, moreVars>>

NextWin == WinEmptyText \/ WinStart \/ WinIterationCap \/ WinIterate \/ WinFinish

SpecWin == InitWin /\ [][NextWin]_vars

\* what every step of NextWin does to the position and the iteration count:
\* one of the two changes, and a step can be taken exactly at these positions
WinAdvance ==
    /\ pc \in {"split_with_llm", "window", "after_loop"}
    /\ \E p \in {"window", "after_loop", "done"}, k \in 0..(max_iterations + 1) :
          pc' = p /\ iterations' = k

\* the function runs on its own thread of control and the collaborator answers
\* or fails every call: a step that can be taken is taken.  On the behaviours
\* of SpecWin this is weak fairness of NextWin.
SpecWinFair == SpecWin /\ WF_<<pc, iterations>>(WinAdvance)


(***************************************************************************)
(* _split_by_length as a state machine: one step per loop iteration        *)
(***************************************************************************)
\* length of the text given to _split_by_length
MaxSplitLen == 4

\* the characters of its texts: a letter, a sentence end, a line break and the
\* two characters of the heading "1" Jang
SplitChars == {"a", ".", NL, "1", Jang}

\* lookahead: shorter and longer than every text
LookaheadValues == {1, default_lookahead}

\* min_length and max_length as passed; a minimum above the maximum included
LenConfigs ==
    {[chunk_chars |-> 1, llm_only |-> FALSE, min_length |-> lo, max_length |-> hi,
      enforce_min |-> FALSE] : lo \in 1..MaxChapterLength, hi \in 1..(MaxChapterLength + 1)}

\* the variables of the callers while _split_by_length or _ensure_min_length
\* runs alone
CallersIdle ==
    /\ MergeIdle
    /\ carryover = <<>>
    /\ cursor = 0
    /\ stall_count = 0
    /\ iterations = 0
    /\ last_progress_signature = <<-1, -1>>
    /\ abort_count = -1
    /\ last = NoLast
    /\ all_failed = TRUE
    /\ all_empty = TRUE

InitLen ==
    /\ pc = "split_by_length"
    /\ text \in StringsUpTo(SplitChars, MaxSplitLen)
    /\ cfg \in LenConfigs
    /\ lookahead \in LookaheadValues
    /\ current_pos = 0
    /\ chapters = <<>>
    /\ CallersIdle
    /\ MinIdle
    /\ MoreIdle

\* lines 640-668: the lengths are resolved, the minimum clamped
SplitStart ==
    /\ pc = "split_by_length"
    /\ cfg' = [cfg EXCEPT !.min_length = ClampMin(cfg.min_length, cfg.max_length)]
    /\ pc' = "split_loop"
    /\ UNCHANGED <<mergeVars, chapters, histVars, text, carryover, cursor, stall_count,
                   iterations, last_progress_signature, abort_count, lenVars, minVars, moreVars>>

\* line 670: the loop condition fails
SplitReturn ==
    /\ pc = "split_loop"
    /\ current_pos >= Len(text)
    /\ pc' = "done"
    /\ UNCHANGED <<mergeVars, chapters, histVars, winVars, lenVars, minVars, moreVars>>

\* lines 672-676: what is left fits in one chapter
SplitRest ==
    /\ pc = "split_loop"
    /\ current_pos < Len(text)
    /\ Len(text) - current_pos <= cfg.max_length
    /\ chapters' = AppendStripped(chapters, SliceFrom(text, current_pos))
    /\ pc' = "done"
    /\ UNCHANGED <<mergeVars, histVars, winVars, lenVars, minVars, moreVars>>

\* lines 678-718: a cut is chosen and the slice before it emitted
SplitCut ==
    /\ pc = "split_loop"
    /\ current_pos < Len(text)
    /\ Len(text) - current_pos > cfg.max_length
    /\ \E cut \in {CutPoint(text, current_pos, cfg.min_length, cfg.max_length, lookahead)} :
          /\ chapters' = AppendStripped(chapters, Slice(text, current_pos, cut))
          /\ current_pos' = cut
    /\ UNCHANGED <<pc, mergeVars, histVars, winVars, lookahead, minVars, moreVars>>

NextLen == SplitStart \/ SplitReturn \/ SplitRest \/ SplitCut

\* the example input: the lines "Chapter 1", "Hello world.", an empty line,
\* "Chapter 2", "Goodbye world."
ExampleText ==
    <<"C", "h", "a", "p", "t", "e", "r", SP, "1", NL,
      "H", "e", "l", "l", "o", SP, "w", "o", "r", "l", "d", ".", NL,
      NL, "C", "h", "a", "p", "t", "e", "r", SP, "2", NL,
      "G", "o", "o", "d", "b", "y", "e", SP, "w", "o", "r", "l", "d", ".">>

\* the example call: _split_by_length(ExampleText, min_length=1), max_length
\* and lookahead at their defaults
InitLenExample ==
    /\ pc = "split_by_length"
    /\ text = ExampleText
    /\ cfg = [chunk_chars |-> 1, llm_only |-> FALSE, min_length |-> 1,
              max_length |-> default_max_length, enforce_min |-> FALSE]
    /\ lookahead = default_lookahead
    /\ current_pos = 0
    /\ chapters = <<>>
    /\ CallersIdle
    /\ MinIdle
    /\ MoreIdle

\* length of the texts in which boundaries of several kinds meet
MaxPriorityLen == 5

\* texts of that length whose search window holds a sentence end, a line break
\* and a run of line breaks: _split_by_length(text, max_length=len(text)-1,
\* min_length=1)
InitLenPriority ==
    /\ pc = "split_by_length"
    /\ text \in [1..MaxPriorityLen -> {"a", ".", NL}]
    /\ cfg = [chunk_chars |-> 1, llm_only |-> FALSE, min_length |-> 1,
              max_length |-> MaxPriorityLen - 1, enforce_min |-> FALSE]
    /\ lookahead = default_lookahead
    /\ current_pos = 0
    /\ chapters = <<>>
    /\ CallersIdle
    /\ MinIdle
    /\ MoreIdle

SpecLen == (InitLen \/ InitLenExample \/ InitLenPriority) /\ [][NextLen]_vars

\* C8: each segment _split_by_length returns, other than the final one, has a
\* length between min_length and max_length inclusive, for every text and
\* every configuration.
C8_LengthBounds ==
    pc = "done" =>
        \A k \in 1..(Len(chapters) - 1) :
            /\ cfg.min_length <= Len(chapters[k])
            /\ Len(chapters[k]) <= cfg.max_length

\* the search window of one loop iteration, lines 678-680
SearchWindow ==
    Slice(text, current_pos + Max(cfg.min_length, 1),
          Min(current_pos + cfg.max_length, Len(text)))

\* C18: in _split_by_length, whenever the search window
\* [cursor+min_length, cursor+max_length) contains a sentence-terminal
\* character, the chosen cut lands on a sentence boundary: the character at
\* offset cut-1, the last of the emitted raw slice, is sentence-terminal
\* punctuation.
C18_SentenceBoundaryCuts ==
    [][(/\ pc = "split_loop"
        /\ current_pos' # current_pos
        /\ \E i \in 1..Len(SearchWindow) : SearchWindow[i] \in SentenceEnd)
       => text[current_pos'] \in SentenceEnd]_vars

\* C24: when the search window of _split_by_length contains no heading but
\* boundaries of several kinds, the cut is chosen by kind priority: the first
\* scene separator if there is one, else the first paragraph break, else the
\* first sentence end, regardless of which occurs earliest in the window.
C24_BoundaryPriority ==
    [][(/\ pc = "split_loop"
        /\ current_pos' # current_pos
        /\ MatchStarts(heading_regex, SearchWindow) = {})
       => LET search_start == current_pos + Max(cfg.min_length, 1)
              scene_points == MatchStarts(scene_regex, SearchWindow)
              para_points == MatchStarts(paragraph_break_regex, SearchWindow)
              sent_points == MatchStarts(sentence_break_regex, SearchWindow)
          IN  IF scene_points # {} THEN current_pos' = search_start + SetMin(scene_points)
              ELSE IF para_points # {} THEN current_pos' = search_start + SetMin(para_points)
              ELSE sent_points # {} => current_pos' = search_start + SetMin(sent_points)]_vars

\* C28: _split_by_length partitions its input: on every loop iteration the
\* chosen cut is strictly greater than current_pos and within the text, the
\* emitted slice is text[current_pos:cut] stripped and the next slice starts
\* at cut, so that the slices are contiguous, in order and cover the whole
\* text, only whitespace being lost.
C28_Partition ==
    /\ []((pc = "split_loop" /\ Len(text) - current_pos > cfg.max_length) =>
            LET cut == CutPoint(text, current_pos, cfg.min_length, cfg.max_length,
                                lookahead)
            IN  current_pos < cut /\ cut <= Len(text))
    /\ [][(pc = "split_loop" /\ pc' = "split_loop") =>
             /\ current_pos' > current_pos
             /\ chapters' = AppendStripped(chapters,
                                           Slice(text, current_pos, current_pos'))]_vars
    /\ [][(pc = "split_loop" /\ pc' = "done") =>
             chapters' \in {chapters,
                            AppendStripped(chapters, SliceFrom(text, current_pos))}]_vars
    /\ [](pc = "split_loop" =>
            NonWs(Concat(chapters)) = NonWs(Slice(text, 0, current_pos)))
    /\ [](pc = "done" => NonWs(Concat(chapters)) = NonWs(text))

\* a text cut twice, with whitespace lost between the slices
C28_Witness ==
    /\ pc = "done"
    /\ current_pos > 1
    /\ Len(chapters) = 3
    /\ Len(Concat(chapters)) < Len(text)

\* C19: for the 48-character example input _split_by_length with
\* min_length=1 and the default max_length returns exactly two segments, whose
\* concatenation equals the normalized input.
C19_ExampleTwoSegments ==
    (pc = "done" /\ text = ExampleText) =>
        /\ Len(chapters) = 2
        /\ NonWs(Concat(chapters)) = NonWs(text)

(***************************************************************************)
(* _ensure_min_length as a state machine: one step per loop iteration      *)
(***************************************************************************)
\* segments given to _ensure_min_length
MaxSegments == 3
\* length of one of them
MaxSegLen == 3
\* the minimum
MaxMinimum == 5

\* the characters of the segments
SegChars == {"a", SP}

\* every caller passes chapters that were stripped and found non-empty
\* (lines 473, 505, 519, 530, 546, 616, 716)
SegmentTexts == {w \in StringsUpTo(SegChars, MaxSegLen) : w # <<>> /\ Strip(w) = w}

InitMin ==
    /\ pc = "ensure_min_length"
    /\ segments \in ListsUpTo(SegmentTexts, MaxSegments)
    /\ minimum \in 0..MaxMinimum
    /\ merged = <<>>
    /\ buffer = <<>>
    /\ seg_no = 0
    /\ chapters = <<>>
    /\ text = <<>>
    /\ cfg = [chunk_chars |-> 1, llm_only |-> FALSE, min_length |-> 1, max_length |-> 1,
              enforce_min |-> TRUE]
    /\ CallersIdle
    /\ LenIdle
    /\ MoreIdle

\* lines 727-728: nothing to merge
EnsureEmpty ==
    /\ pc = "ensure_min_length"
    /\ segments = <<>>
    /\ chapters' = <<>>
    /\ pc' = "done"
    /\ UNCHANGED <<mergeVars, histVars, winVars, lenVars, minVars, moreVars>>

\* lines 730-731: everything together is no longer than the minimum
EnsureShort ==
    /\ pc = "ensure_min_length"
    /\ segments # <<>>
    /\ SumLen(segments) <= minimum
    /\ chapters' = <<Strip(JoinPara(segments))>>
    /\ pc' = "done"
    /\ UNCHANGED <<mergeVars, histVars, winVars, lenVars, minVars, moreVars>>

\* lines 733-734: the loop is entered
EnsureStart ==
    /\ pc = "ensure_min_length"
    /\ segments # <<>>
    /\ SumLen(segments) > minimum
    /\ merged' = <<>>
    /\ buffer' = <<>>
    /\ seg_no' = 0
    /\ pc' = "ensure_loop"
    /\ UNCHANGED <<mergeVars, chapters, histVars, winVars, lenVars, segments, minimum, moreVars>>

\* lines 735-743: one segment is joined to the buffer, the buffer flushed when
\* it is long enough
EnsureSegment ==
    /\ pc = "ensure_loop"
    /\ seg_no < Len(segments)
    /\ \E r \in {EnsureOne(segments[seg_no + 1], minimum, merged, buffer)} :
          /\ merged' = r[1]
          /\ buffer' = r[2]
    /\ seg_no' = seg_no + 1
    /\ UNCHANGED <<pc, mergeVars, chapters, histVars, winVars, lenVars, segments, minimum,
                   moreVars>>

\* lines 745-751: the buffer left over is placed and the list returned
EnsureFinish ==
    /\ pc = "ensure_loop"
    /\ seg_no = Len(segments)
    /\ chapters' = EnsureTail(merged, buffer, minimum)
    /\ pc' = "done"
    /\ UNCHANGED <<mergeVars, histVars, winVars, lenVars, minVars, moreVars>>

NextMin == EnsureEmpty \/ EnsureShort \/ EnsureStart \/ EnsureSegment \/ EnsureFinish

SpecMin == InitMin /\ [][NextMin]_vars

\* every returned segment is at least minimum long, or the input as a whole is
\* shorter than minimum and exactly one segment is returned
MinConverged ==
    IF SumLen(segments) < minimum THEN Len(chapters) = 1
    ELSE \A k \in 1..Len(chapters) : Len(chapters[k]) >= minimum

\* C7 as stated: for any list of segments and any minimum, every segment
\* returned by _ensure_min_length has length >= minimum, except when the total
\* input length is below minimum, in which case exactly one segment is returned.
C7_AnyList == pc = "done" => MinConverged

\* C7: for any non-empty list of segments and any minimum, every segment
\* returned by _ensure_min_length has length >= minimum, except when the total
\* input length is below minimum, in which case exactly one segment is returned;
\* for the empty list the empty list is returned.
C7_MinimumLengthConvergence ==
    pc = "done" => IF segments = <<>> THEN chapters = <<>> ELSE MinConverged

\* a short last buffer was joined to the chapter flushed before it
C7_Witness ==
    /\ pc = "done"
    /\ buffer # <<>> /\ Len(buffer) < minimum /\ merged # <<>>
    /\ Len(chapters) = Len(merged)
    /\ Len(chapters) >= 2


\* C30: the minimum-length merge pass preserves content and order: for any
\* list of non-empty, already-stripped segments and any minimum, joining the
\* segments returned by _ensure_min_length with the blank-line separator gives
\* the same string as joining the input segments with it, and the output
\* never has more segments than the input.
C30_MergePreserves ==
    /\ pc = "ensure_loop" =>
          JoinPara(IF buffer # <<>> THEN Append(merged, buffer) ELSE merged)
              = JoinPara(SubSeq(segments, 1, seg_no))
    /\ pc = "done" =>
          /\ JoinPara(chapters) = JoinPara(segments)
          /\ Len(chapters) <= Len(segments)

\* three segments came back as two: one chapter holds two of them and the
\* separator between them
C30_Witness ==
    /\ pc = "done"
    /\ Len(segments) = 3
    /\ Len(chapters) = 2
    /\ \E k \in 1..2 : \E i \in 1..2 : chapters[k] = segments[i] \o ParaSep \o segments[i + 1]

(***************************************************************************)
(* _micro_split_text (lines 110-175)                                       *)
(***************************************************************************)
\* the offset after the run of newlines that starts at offset i (1-based)
RECURSIVE RunEnd(_, _)
RunEnd(txt, i) == IF i <= Len(txt) /\ txt[i] = NL THEN RunEnd(txt, i + 1) ELSE i

\* re.split(r"\n{2,}", text): the pieces between the runs of two or more
\* newlines, from the 1-based offset i on, piece being the one under way
RECURSIVE ReSplit(_, _, _)
ReSplit(txt, i, piece) ==
    IF i > Len(txt) THEN <<piece>>
    ELSE IF txt[i] = NL /\ i < Len(txt) /\ txt[i + 1] = NL
         THEN <<piece>> \o ReSplit(txt, RunEnd(txt, i), <<>>)
         ELSE ReSplit(txt, i + 1, Append(piece, txt[i]))

\* [p for p in xs if p.strip()]
RECURSIVE WithText(_)
WithText(xs) ==
    IF xs = <<>> THEN <<>>
    ELSE IF Strip(Head(xs)) # <<>> THEN <<Head(xs)>> \o WithText(Tail(xs))
    ELSE WithText(Tail(xs))

\* a faulty variant: the text after the first run of newlines is left out
ParagraphsOf_First(txt) == WithText(<<Head(ReSplit(txt, 1, <<>>))>>)

\* line 125: the paragraphs of the text
ParagraphsOf(txt) == WithText(ReSplit(txt, 1, <<>>))

\* line 128: sentence_endings, a sentence mark and the whitespace after it
sentence_endings == RCat(<<RSet(SentenceEnd), RPlus(RSet(WsChars))>>)

\* lines 150-152: the end of the last match of sentence_endings in the window,
\* -1 without a match.  A match is a mark and the whole whitespace run after
\* it, so no two matches overlap and the last one starts at the last start.
LastSentence(window) ==
    LET starts == MatchStarts(sentence_endings, window)
    IN  IF starts = {} THEN -1
        ELSE SetMax(Ends(sentence_endings, window, SetMax(starts)))

\* a faulty variant: the buffer is never cut
HardSplit_Never(chs, buf, target, hard) == [chunks |-> chs, buffer |-> buf]

\* lines 147-158: the while loop that cuts a buffer of hard_max or more
RECURSIVE HardSplit(_, _, _, _)
HardSplit(chs, buf, target, hard) ==
    IF Len(buf) < hard THEN [chunks |-> chs, buffer |-> buf]
    ELSE LET window == Slice(buf, 0, hard)
             last_sentence == LastSentence(window)
         IN  IF last_sentence # -1 /\ last_sentence >= target \div 2
             THEN HardSplit(AppendStripped(chs, Slice(buf, 0, last_sentence)),
                            SliceFrom(buf, last_sentence), target, hard)
             ELSE HardSplit(AppendStripped(chs, Slice(buf, 0, hard)),
                            SliceFrom(buf, hard), target, hard)

\* lines 137-164: one paragraph is joined to the buffer, the buffer cut while
\* it is hard_max long or more and flushed when it reaches the target
MicroPara(chs, buf, para, target, hard) ==
    LET joined == IF buf = <<>> THEN Strip(para) ELSE buf \o ParaSep \o Strip(para)
        cut == HardSplit(chs, joined, target, hard)
    IN  IF Len(cut.buffer) >= target
        THEN [chunks |-> AppendStripped(cut.chunks, cut.buffer), buffer |-> <<>>]
        ELSE cut

\* the loop of lines 136-170 from the k-th paragraph on
RECURSIVE MicroLoop(_, _, _, _, _, _)
MicroLoop(paras, k, chs, buf, target, hard) ==
    IF k > Len(paras) THEN [chunks |-> chs, buffer |-> buf]
    ELSE LET r == MicroPara(chs, buf, paras[k], target, hard)
         IN  MicroLoop(paras, k + 1, r.chunks, r.buffer, target, hard)

\* _micro_split_text
micro_split_text(txt, target, hard) ==
    IF txt = <<>> THEN <<>>
    ELSE LET r == MicroLoop(ParagraphsOf(txt), 1, <<>>, <<>>, target, hard)
         IN  AppendStripped(r.chunks, r.buffer)

(***************************************************************************)
(* _micro_split_text as a state machine: one step per paragraph            *)
(***************************************************************************)
\* length of the text given to _micro_split_text
MaxMicroLen == 5
\* target_chars and hard_max_chars (1600 and 2400 by default, lines 113-114)
MaxTargetChars == 3
MaxHardMax == 3

\* the characters of its texts
MicroChars == {"a", ".", SP, NL}

\* the variables of the other functions while one of those below runs alone
OthersIdle ==
    /\ CallersIdle
    /\ cfg = [chunk_chars |-> 1, llm_only |-> TRUE, min_length |-> 1, max_length |-> 1,
              enforce_min |-> FALSE]
    /\ LenIdle
    /\ segments = <<>>
    /\ minimum = 0
    /\ merged = <<>>
    /\ seg_no = 0

InitMicro ==
    /\ pc = "micro_split_text"
    /\ text \in StringsUpTo(MicroChars, MaxMicroLen)
    /\ target_chars \in 1..MaxTargetChars
    /\ hard_max_chars \in 1..MaxHardMax
    /\ paragraphs = <<>>
    /\ para_idx = 0
    /\ chunks = <<>>
    /\ buffer = <<>>
    /\ chapters = <<>>
    /\ filtered_starts = <<>>
    /\ ExtractIdle
    /\ CleanIdle
    /\ OthersIdle
    /\ progress_current = 0

\* lines 122-123: no text, no chunks
MicroEmptyText ==
    /\ pc = "micro_split_text"
    /\ text = <<>>
    /\ chunks' = <<>>
    /\ pc' = "done"
    /\ UNCHANGED <<mergeVars, chapters, histVars, winVars, lenVars, minVars, target_chars,
                   hard_max_chars, paragraphs, para_idx, filtered_starts, extractVars,
                   cleanVars, progress_current>>

\* lines 125-135: the text is split into paragraphs
MicroStart ==
    /\ pc = "micro_split_text"
    /\ text # <<>>
    /\ paragraphs' = ParagraphsOf(text)
    /\ chunks' = <<>>
    /\ buffer' = <<>>
    /\ para_idx' = 0
    /\ pc' = "micro_loop"
    /\ UNCHANGED <<mergeVars, chapters, histVars, winVars, lenVars, segments, minimum, merged,
                   seg_no, target_chars, hard_max_chars, filtered_starts, extractVars,
                   cleanVars, progress_current>>

\* lines 136-170: one paragraph; an exception of the progress callback is
\* swallowed (lines 166-170)
MicroParagraph ==
    /\ pc = "micro_loop"
    /\ para_idx < Len(paragraphs)
    /\ \E r \in {MicroPara(chunks, buffer, paragraphs[para_idx + 1], target_chars,
                           hard_max_chars)} :
          /\ chunks' = r.chunks
          /\ buffer' = r.buffer
    /\ para_idx' = para_idx + 1
    /\ progress_current' = para_idx + 1
    /\ UNCHANGED <<pc, mergeVars, chapters, histVars, winVars, lenVars, segments, minimum,
                   merged, seg_no, target_chars, hard_max_chars, paragraphs,
                   filtered_starts, extractVars, cleanVars>>

\* lines 172-175: the rest of the buffer is flushed and the chunks returned
MicroFinish ==
    /\ pc = "micro_loop"
    /\ para_idx = Len(paragraphs)
    /\ chunks' = AppendStripped(chunks, buffer)
    /\ pc' = "done"
    /\ UNCHANGED <<mergeVars, chapters, histVars, winVars, lenVars, minVars, target_chars,
                   hard_max_chars, paragraphs, para_idx, filtered_starts, extractVars,
                   cleanVars, progress_current>>

NextMicro == MicroEmptyText \/ MicroStart \/ MicroParagraph \/ MicroFinish

SpecMicro == InitMicro /\ [][NextMicro]_vars

\* C11: no chunk of _micro_split_text is longer than hard_max_chars, for every
\* text and every target_chars and hard_max_chars >= 1, a target above the hard
\* maximum included.
C11_MicroChunkCeiling ==
    \A k \in 1..Len(chunks) : Len(chunks[k]) <= hard_max_chars

\* a text cut at the hard maximum although the target lies above it
C11_Witness ==
    /\ pc = "done"
    /\ target_chars > hard_max_chars
    /\ Len(chunks) >= 2
    /\ \E k \in 1..Len(chunks) : Len(chunks[k]) = hard_max_chars
    /\ Len(text) > hard_max_chars

\* C12: the chunks _micro_split_text returns, concatenated in order, hold
\* every non-whitespace character of the text exactly once and in order, and
\* none of them is empty.
C12_MicroChunkPartition ==
    pc = "done" =>
        /\ NonWs(Concat(chunks)) = NonWs(text)
        /\ \A k \in 1..Len(chunks) : chunks[k] # <<>>

\* several paragraphs, cut into more chunks than paragraphs
C12_Witness ==
    /\ pc = "done"
    /\ Len(paragraphs) >= 2
    /\ Len(chunks) > Len(paragraphs)
    /\ Len(NonWs(text)) < Len(text)

(***************************************************************************)
(* _auto_detect_chapters (lines 560-622)                                   *)
(***************************************************************************)
\* a pattern anchored to a line: ^\s*<body>\s*$
Anchored(body) == RCat(<<RBol, WsStar, body, WsStar, REol>>)

\* lines 569-581: anchored_patterns (IGNORECASE | MULTILINE)
anchored_patterns ==
    <<Anchored(RWord(<<{"U+D504"}, {"U+B864"}, {"U+B85C"}, {"U+ADF8"}>>)),
      Anchored(RWord(<<{"U+C5D0"}, {"U+D544"}, {"U+B85C"}, {"U+ADF8"}>>)),
      Anchored(RCat(<<RSet({"U+C81C"}), WsStar, DigitPlus, WsStar, JangHwaBu>>)),
      Anchored(RCat(<<DigitPlus, WsStar, JangHwaBu>>)),
      Anchored(RCat(<<RWord(<<{"U+D30C"}, {"U+D2B8"}>>), WsStar, DigitPlus>>)),
      Anchored(RCat(<<WordPart, WsStar, DigitPlus>>)),
      Anchored(RCat(<<WordChapter, WsStar, DigitPlus>>)),
      Anchored(RCat(<<WordChapter, WsStar, DigitPlus>>)),
      Anchored(RCat(<<WordChapter, WsStar, Roman>>)),
      Anchored(RCat(<<WordChapter, WsStar, Roman>>)),
      Anchored(RCat(<<RWord(<<{"U+CC55"}, {"U+D130"}>>), WsStar, DigitPlus>>))>>

\* lines 584-590: scene_separators
scene_separators ==
    <<Anchored(RRep(RSet({"-"}), 3, -1)),
      Anchored(RRep(RSet({"*"}), 3, -1)),
      Anchored(RRep(RSet({"="}), 3, -1)),
      RCat(<<RBol, WsStar, RRep(RSet({"#"}), 1, 6), RPlus(RSet(WsChars)), RPlus(Dot), REol>>),
      Anchored(RPlus(RSet({"U+25C7", "U+25A0", "U+203B", "U+25CB", "U+25C6"})))>>

\* re.finditer(pattern, text): the starts of the matches found from offset
\* `from` on.  The search goes on where a match ended; the quantifiers of
\* these patterns are greedy, so a match ends at the last offset it can.
RECURSIVE FindStarts(_, _, _)
FindStarts(re, txt, from) ==
    LET starts == {q \in from..Len(txt) : Ends(re, txt, q) # {}}
    IN  IF starts = {} THEN {}
        ELSE LET q == SetMin(starts)
                 e == SetMax(Ends(re, txt, q))
             IN  {q} \cup FindStarts(re, txt, IF e > q THEN e ELSE q + 1)

\* lines 593-596: candidate_starts, as a set
CandidateStarts(txt) ==
    UNION {FindStarts((anchored_patterns \o scene_separators)[k], txt, 0) :
              k \in 1..(Len(anchored_patterns) + Len(scene_separators))}

\* MIN_GAP of line 602 (800 in the source), scaled with the texts
MIN_GAP == 2

\* lines 603-608: the starts kept, each at least MIN_GAP after the one kept
\* before it; todo holds the starts not looked at yet
RECURSIVE FilterStarts(_, _, _)
FilterStarts(todo, last_added, acc) ==
    IF todo = {} THEN acc
    ELSE LET start == SetMin(todo)
         IN  IF start - last_added >= MIN_GAP
             THEN FilterStarts(todo \ {start}, start, Append(acc, start))
             ELSE FilterStarts(todo \ {start}, last_added, acc)

\* lines 593-608
FilteredStarts(txt) == FilterStarts(CandidateStarts(txt), -MIN_GAP, <<>>)

\* lines 612-620: the text from each start to the next, stripped
RECURSIVE CutAtStarts(_, _, _, _)
CutAtStarts(txt, starts, k, acc) ==
    IF k > Len(starts) THEN acc
    ELSE LET segment == IF k = Len(starts) THEN SliceFrom(txt, starts[k])
                        ELSE Slice(txt, starts[k], starts[k + 1])
         IN  CutAtStarts(txt, starts, k + 1, AppendStripped(acc, segment))

\* lines 610-622
DetectedChapters(txt, starts) ==
    IF Len(starts) > 1 THEN CutAtStarts(txt, starts, 1, <<>>) ELSE <<>>

\* _auto_detect_chapters
auto_detect_chapters(txt) == DetectedChapters(txt, FilteredStarts(txt))

(***************************************************************************)
(* _auto_detect_chapters as a state machine                                *)
(***************************************************************************)
\* length of the text given to _auto_detect_chapters
MaxDetectLen == 5

\* the characters of its texts: a letter, a line break, a scene separator and
\* the two characters of the heading "1" Jang
DetectChars == {"a", NL, Diamond, "1", Jang}

InitDetect ==
    /\ pc = "auto_detect_chapters"
    /\ text \in StringsUpTo(DetectChars, MaxDetectLen)
    /\ filtered_starts = <<>>
    /\ chapters = <<>>
    /\ buffer = <<>>
    /\ MicroIdle
    /\ ExtractIdle
    /\ CleanIdle
    /\ OthersIdle
    /\ progress_current = 0

\* lines 568-608: the boundaries are collected and thinned out
DetectScan ==
    /\ pc = "auto_detect_chapters"
    /\ filtered_starts' = FilteredStarts(text)
    /\ pc' = "detect_cut"
    /\ UNCHANGED <<mergeVars, chapters, histVars, winVars, lenVars, minVars, microVars,
                   extractVars, cleanVars, progress_current>>

\* lines 610-622 with at most one boundary: nothing is returned
DetectNone ==
    /\ pc = "detect_cut"
    /\ Len(filtered_starts) <= 1
    /\ chapters' = <<>>
    /\ pc' = "done"
    /\ UNCHANGED <<mergeVars, histVars, winVars, lenVars, minVars, microVars,
                   filtered_starts, extractVars, cleanVars, progress_current>>

\* lines 610-622 with two or more boundaries: the text is cut at them
DetectSplit ==
    /\ pc = "detect_cut"
    /\ Len(filtered_starts) > 1
    /\ chapters' = DetectedChapters(text, filtered_starts)
    /\ pc' = "done"
    /\ UNCHANGED <<mergeVars, histVars, winVars, lenVars, minVars, microVars,
                   filtered_starts, extractVars, cleanVars, progress_current>>

NextDetect == DetectScan \/ DetectNone \/ DetectSplit

SpecDetect == InitDetect /\ [][NextDetect]_vars

\* C13: whenever _auto_detect_chapters detects two or more boundaries, the
\* segments it returns, concatenated in order, reproduce the whole input
\* modulo whitespace, the text before the first boundary included.
C13_PatternSplitLossless ==
    (pc = "done" /\ Len(filtered_starts) >= 2) =>
        NonWs(Concat(chapters)) = NonWs(text)

(***************************************************************************)
(* extract_chapters_enhanced (lines 23-108) on its default path,           *)
(* USE_MICRO_MERGE = "1": the micro-merge strategy, then the fallbacks, the *)
(* debugging limit and the analysis of every chapter                       *)
(***************************************************************************)
\* largest DEBUG_MAX_CHAPTERS followed
MaxDebugChapters == 2

\* a faulty variant: a failed analysis keeps no content
analyze_chapter_enhanced_Lost(chapter_content, chapter_number, ok) ==
    [number |-> chapter_number,
     content |-> IF ok THEN chapter_content ELSE <<>>,
     analysed |-> ok]

\* lines 753-833: the record of one chapter; ok tells whether the enrichment
\* call and the parsing of its reply went through (lines 815-826) or raised
\* (lines 828-833)
analyze_chapter_enhanced(chapter_content, chapter_number, ok) ==
    [number |-> chapter_number, content |-> chapter_content, analysed |-> ok]

\* lines 51-60: no chapter came back from the strategy
FallbackChapters(txt, llm_only, minimum_length) ==
    IF llm_only
    THEN IF Strip(txt) # <<>> THEN <<Strip(txt)>> ELSE <<>>
    ELSE IF auto_detect_chapters(txt) # <<>>
         THEN auto_detect_chapters(txt)
         ELSE split_by_length(txt, default_max_length, minimum_length, default_lookahead)

\* lines 61-64: chapters came back
KeptChapters(chs, llm_only, enforce_min, minimum_length) ==
    IF ~llm_only /\ enforce_min THEN ensure_min_length(chs, minimum_length) ELSE chs

\* lines 67-73: DEBUG_MAX_CHAPTERS
DebugLimit(chs, debug_max) ==
    IF debug_max > 0 THEN SubSeq(chs, 1, Min(debug_max, Len(chs))) ELSE chs

\* the texts for which _micro_split_text returns no chunk
BlankTexts == {<<>>, <<NL>>, <<SP, NL>>}

\* lines 44-77 after a strategy that returned nothing: then the text is blank
ExtractFallback ==
    /\ pc = "done"
    /\ chapters = <<>>
    /\ \E txt \in BlankTexts, llm_only \in BOOLEAN,
          minimum_length \in 1..MaxMinimum, debug_max \in 0..MaxDebugChapters :
          chapters' = DebugLimit(FallbackChapters(txt, llm_only, minimum_length), debug_max)
    /\ analyzed_chapters' = <<>>
    /\ chapter_no' = 0
    /\ pc' = "analyze"
    /\ UNCHANGED <<mergeVars, histVars, winVars, lenVars, minVars, microVars,
                   filtered_starts, callback_raised, cleanVars, progress_current>>

\* lines 44-77 after a strategy that returned chapters
ExtractKeep ==
    /\ pc = "done"
    /\ chapters # <<>>
    /\ \E llm_only \in BOOLEAN, enforce_min \in BOOLEAN,
          minimum_length \in 1..MaxMinimum, debug_max \in 0..MaxDebugChapters :
          chapters' = DebugLimit(KeptChapters(chapters, llm_only, enforce_min, minimum_length),
                                 debug_max)
    /\ analyzed_chapters' = <<>>
    /\ chapter_no' = 0
    /\ pc' = "analyze"
    /\ UNCHANGED <<mergeVars, histVars, winVars, lenVars, minVars, microVars,
                   filtered_starts, callback_raised, cleanVars, progress_current>>

\* lines 79-81: the callback is told that chapter i starts; it is called
\* outside any try of the loop, so that what it raises reaches lines 107-108
ExtractNotify ==
    /\ pc = "analyze"
    /\ chapter_no < Len(chapters)
    /\ progress_current' = chapter_no + 1
    /\ \E raises \in BOOLEAN :
          /\ callback_raised' = (callback_raised \/ raises)
          /\ pc' = IF raises THEN "failed" ELSE "analyze_chapter"
    /\ UNCHANGED <<mergeVars, chapters, histVars, winVars, lenVars, minVars, microVars,
                   filtered_starts, analyzed_chapters, chapter_no, cleanVars>>

\* lines 83-84: chapter i is analysed and its record appended
ExtractAnalyze ==
    /\ pc = "analyze_chapter"
    /\ \E ok \in BOOLEAN :
          analyzed_chapters' =
              Append(analyzed_chapters,
                     analyze_chapter_enhanced(chapters[chapter_no + 1], chapter_no + 1, ok))
    /\ pc' = "notify_done"
    /\ UNCHANGED <<mergeVars, chapters, histVars, winVars, lenVars, minVars, microVars,
                   filtered_starts, chapter_no, callback_raised, cleanVars, progress_current>>

\* lines 87-98: the callback is told that chapter i is done; what it raises
\* is swallowed
ExtractNotifyDone ==
    /\ pc = "notify_done"
    /\ \E raises \in BOOLEAN : callback_raised' = (callback_raised \/ raises)
    /\ chapter_no' = chapter_no + 1
    /\ progress_current' = chapter_no + 1
    /\ pc' = "analyze"
    /\ UNCHANGED <<mergeVars, chapters, histVars, winVars, lenVars, minVars, microVars,
                   filtered_starts, analyzed_chapters, cleanVars>>

\* line 105: the records are returned
ExtractReturn ==
    /\ pc = "analyze"
    /\ chapter_no = Len(chapters)
    /\ pc' = "returned"
    /\ UNCHANGED <<mergeVars, chapters, histVars, winVars, lenVars, minVars, moreVars>>

NextExtract ==
    \/ NextMerge
    \/ ExtractFallback
    \/ ExtractKeep
    \/ ExtractNotify
    \/ ExtractAnalyze
    \/ ExtractNotifyDone
    \/ ExtractReturn

SpecExtract == InitMerge /\ [][NextExtract]_vars

\* extract_chapters_enhanced on its other path, USE_MICRO_MERGE = "0": the
\* sliding-window strategy comes first, and LLM_SPLIT_ONLY, MIN_CHAPTER_LENGTH,
\* MAX_CHAPTER_LENGTH and ENFORCE_MIN_FOR_AUTO are what they were for it (cfg)

\* a faulty variant: in LLM-only mode nothing stands in for the missing chapters
WholeOrSplit_Nothing(txt, c) ==
    IF c.llm_only THEN <<>>
    ELSE IF auto_detect_chapters(txt) # <<>> THEN auto_detect_chapters(txt)
    ELSE split_by_length(txt, c.max_length, c.min_length, default_lookahead)

\* lines 51-60 with the environment of cfg
WholeOrSplit(txt, c) ==
    IF c.llm_only
    THEN IF Strip(txt) # <<>> THEN <<Strip(txt)>> ELSE <<>>
    ELSE IF auto_detect_chapters(txt) # <<>> THEN auto_detect_chapters(txt)
    ELSE split_by_length(txt, c.max_length, c.min_length, default_lookahead)

\* lines 44-77 after a sliding-window strategy that returned nothing
AssembleFallback ==
    /\ pc = "done"
    /\ chapters = <<>>
    /\ \E debug_max \in 0..MaxDebugChapters :
          chapters' = DebugLimit(WholeOrSplit(text, cfg), debug_max)
    /\ analyzed_chapters' = <<>>
    /\ chapter_no' = 0
    /\ pc' = "analyze"
    /\ UNCHANGED <<mergeVars, histVars, winVars, lenVars, minVars, microVars,
                   filtered_starts, callback_raised, cleanVars, progress_current>>

\* lines 44-77 after a sliding-window strategy that returned chapters
AssembleKeep ==
    /\ pc = "done"
    /\ chapters # <<>>
    /\ \E debug_max \in 0..MaxDebugChapters :
          chapters' = DebugLimit(KeptChapters(chapters, cfg.llm_only, cfg.enforce_min,
                                              cfg.min_length), debug_max)
    /\ analyzed_chapters' = <<>>
    /\ chapter_no' = 0
    /\ pc' = "analyze"
    /\ UNCHANGED <<mergeVars, histVars, winVars, lenVars, minVars, microVars,
                   filtered_starts, callback_raised, cleanVars, progress_current>>

\* the run in LLM-only mode, LLM_SPLIT_ONLY = "1"
InitAssemble == InitWin /\ cfg.llm_only

NextAssemble ==
    \/ NextWin
    \/ AssembleFallback
    \/ AssembleKeep
    \/ ExtractNotify
    \/ ExtractAnalyze
    \/ ExtractNotifyDone
    \/ ExtractReturn

SpecAssemble == InitAssemble /\ [][NextAssemble]_vars

\* C27: when the selected primary strategy yields no chapters and LLM-only
\* mode is on, extract_chapters_enhanced treats the whole stripped input as
\* exactly one chapter, without raising; when the input is empty or
\* whitespace-only it returns an empty list.
C27_WholeTextFallback ==
    /\ [][(pc = "done" /\ chapters = <<>> /\ cfg.llm_only /\ pc' # pc) =>
             /\ pc' = "analyze"
             /\ chapters' = IF Strip(text) # <<>> THEN <<Strip(text)>> ELSE <<>>]_vars
    /\ []((pc = "returned" /\ Strip(text) = <<>>) => analyzed_chapters = <<>>)

\* every reply was the empty result, so that the strategy returned no chapter
\* for a text that holds something, and the whole text became the one chapter
C27_Witness ==
    /\ pc = "analyze"
    /\ cfg.llm_only
    /\ all_empty
    /\ iterations >= 1 /\ iterations <= max_iterations
    /\ abort_count = -1
    /\ carryover = <<>>
    /\ Strip(text) # <<>>
    /\ chapters = <<Strip(text)>>

\* C14: a progress callback that raises on any of its invocations does not
\* change the outcome of extract_chapters_enhanced: the exception is swallowed
\* at every call site, so the function never ends in its own exception
\* because of the callback.
C14_CallbackIsolation == callback_raised => pc # "failed"

\* C26: over one extract_chapters_enhanced run (merge batches, then per-chapter
\* analysis) the `current` value passed to successive progress-callback
\* invocations is monotonically increasing: no invocation reports a `current`
\* lower than the invocation before it.
C26_MonotonicProgress == [][progress_current' >= progress_current]_vars

\* C15: extract_chapters_enhanced returns exactly one record per chapter
\* segment, in segment order, with number equal to the 1-based position and
\* content equal to the segment text, even when the enrichment call fails for
\* any subset of the chapters.
C15_RecordsMirrorSegments ==
    pc = "returned" =>
        /\ Len(analyzed_chapters) = Len(chapters)
        /\ \A k \in 1..Len(chapters) :
              /\ analyzed_chapters[k].number = k
              /\ analyzed_chapters[k].content = chapters[k]

\* three chapters are returned, the enrichment failed for some and not for
\* others
C15_Witness ==
    /\ pc = "returned"
    /\ Len(analyzed_chapters) = 3
    /\ \E j, k \in 1..3 : analyzed_chapters[j].analysed /\ ~analyzed_chapters[k].analysed

(***************************************************************************)
(* _clean_text of FileProcessor (file_processor.py, lines 93-122) and of   *)
(* PDFProcessor (pdf_processor.py, lines 54-83): the same code twice       *)
(***************************************************************************)
\* text.split('\n') from position i on, piece being the line read so far
RECURSIVE LinesFrom(_, _, _)
LinesFrom(txt, i, piece) ==
    IF i > Len(txt) THEN <<piece>>
    ELSE IF txt[i] = NL THEN <<piece>> \o LinesFrom(txt, i + 1, <<>>)
    ELSE LinesFrom(txt, i + 1, Append(piece, txt[i]))

LinesOf(txt) == LinesFrom(txt, 1, <<>>)

\* a faulty variant: one whitespace character is taken off each end
CleanLine_Once(line) ==
    LET lo == IF line # <<>> /\ IsWs(line[1]) THEN 2 ELSE 1
        hi == IF Len(line) >= lo /\ IsWs(line[Len(line)]) THEN Len(line) - 1 ELSE Len(line)
    IN  SubSeq(line, lo, hi)

\* line.strip()
CleanLine(line) == Strip(line)

\* the loop over the lines: the lines of whitespace only are left out, the
\* others are kept stripped
RECURSIVE CleanedLines(_)
CleanedLines(lines) ==
    IF lines = <<>> THEN <<>>
    ELSE IF Strip(Head(lines)) # <<>>
         THEN <<CleanLine(Head(lines))>> \o CleanedLines(Tail(lines))
         ELSE CleanedLines(Tail(lines))

\* '\n'.join(cleaned_lines)
RECURSIVE JoinLines(_)
JoinLines(lines) ==
    IF lines = <<>> THEN <<>>
    ELSE IF Len(lines) = 1 THEN Head(lines)
    ELSE Head(lines) \o <<NL>> \o JoinLines(Tail(lines))

\* re.sub(r'\n{3,}', '\n\n', txt) from position i on
RECURSIVE CollapseFrom(_, _)
CollapseFrom(txt, i) ==
    IF i > Len(txt) THEN <<>>
    ELSE IF txt[i] # NL THEN <<txt[i]>> \o CollapseFrom(txt, i + 1)
    ELSE LET run == RunEnd(txt, i) - i
         IN  IF run >= 3 THEN <<NL, NL>> \o CollapseFrom(txt, i + run)
             ELSE SubSeq(txt, i, i + run - 1) \o CollapseFrom(txt, i + run)

CollapseBreaks(txt) == CollapseFrom(txt, 1)

clean_text(txt) ==
    IF txt = <<>> THEN <<>>
    ELSE CollapseBreaks(JoinLines(CleanedLines(LinesOf(txt))))

\* length of the text given to _clean_text
MaxCleanLen == 6

\* the characters of its texts: two letters, a space and a line break
CleanChars == {"a", "b", SP, NL}

InitClean ==
    /\ pc = "clean_text"
    /\ text \in StringsUpTo(CleanChars, MaxCleanLen)
    /\ cleaned_text = <<>>
    /\ cleaned_again = <<>>
    /\ chapters = <<>>
    /\ buffer = <<>>
    /\ filtered_starts = <<>>
    /\ MicroIdle
    /\ ExtractIdle
    /\ OthersIdle
    /\ progress_current = 0

\* _clean_text(text)
CleanText ==
    /\ pc = "clean_text"
    /\ cleaned_text' = clean_text(text)
    /\ pc' = "cleaned"
    /\ UNCHANGED <<mergeVars, chapters, histVars, winVars, lenVars, minVars, microVars,
                   filtered_starts, extractVars, cleaned_again,
                   progress_current>>

\* _clean_text applied to what it returned
CleanTextAgain ==
    /\ pc = "cleaned"
    /\ cleaned_again' = clean_text(cleaned_text)
    /\ pc' = "done"
    /\ UNCHANGED <<mergeVars, chapters, histVars, winVars, lenVars, minVars, microVars,
                   filtered_starts, extractVars, cleaned_text,
                   progress_current>>

NextClean == CleanText \/ CleanTextAgain

SpecClean == InitClean /\ [][NextClean]_vars

\* C17: normalization is idempotent: for every text t,
\* _clean_text(_clean_text(t)) equals _clean_text(t).
C17_CleanIdempotent == pc = "done" => cleaned_again = cleaned_text

\* a text of several lines that the first application changed: a line lost
\* whitespace at both ends and a blank line went
C17_Witness ==
    /\ pc = "done"
    /\ Len(LinesOf(text)) >= 3
    /\ Len(LinesOf(cleaned_text)) = 2
    /\ Len(cleaned_text) + 3 <= Len(text)
    /\ \E k \in 1..Len(LinesOf(text)) :
          LET line == LinesOf(text)[k]
          IN  Len(line) >= 3 /\ IsWs(line[1]) /\ IsWs(line[Len(line)]) /\ Strip(line) # <<>>

(***************************************************************************)
(* Both LLM strategies, for the properties that speak of both              *)
(***************************************************************************)
Init == InitMerge \/ InitExample \/ InitWin
Next == NextMerge \/ NextWin
Spec == Init /\ [][Next]_vars

(***************************************************************************)
(* Properties of the sliding-window strategy                               *)
(***************************************************************************)
\* _split_chapters_with_llm has returned
WinReturned == pc = "done" /\ text # <<>>

\* C1: the segments _split_chapters_with_llm returns, concatenated in order,
\* hold every non-whitespace character of the input exactly once and in the
\* original order, whatever the replies.
C1_WindowLossless ==
    WinReturned => NonWs(Concat(chapters)) = NonWs(text)

\* C2 (sliding-window half): with a collaborator that always returns
\* {"segments": [], "leftover_from": <window length>} the splitter returns, for
\* an input with text in it, a non-empty list that holds the whole input.
C2_WindowStallCovers ==
    (WinReturned /\ all_empty /\ Strip(text) # <<>>) =>
        /\ chapters # <<>>
        /\ NonWs(Concat(chapters)) = NonWs(text)

\* C2: stall termination of both strategies: with a collaborator that always
\* returns the empty result each returns a non-empty result that covers the
\* whole input.
C2_StallTermination == C2_WindowStallCovers /\ C2_MergerStallCovers

\* C16: when the collaborator call raises for a window, _split_chapters_with_llm
\* does not propagate the error: the loop goes on or ends normally; in LLM-only
\* mode the whole window (carryover + newly read text) is emitted as one
\* segment (stripped, and none for a window of whitespace only), the carryover
\* is cleared, the cursor advances by the stride (up to the end of the text)
\* and processing continues with the next window while text is left.
C16_FailureNotFatal ==
    [][(pc = "window" /\ iterations' = iterations + 1 /\ last'.kind = "fail") =>
          /\ pc' \in {"window", "after_loop"}
          /\ cfg.llm_only =>
                LET window == (carryover \o Slice(text, cursor,
                                                  Min(cursor + cfg.chunk_chars, Len(text))))
                IN  /\ chapters' = IF Strip(window) = <<>> THEN chapters
                                   ELSE Append(chapters, Strip(window))
                    /\ carryover' = <<>>
                    /\ cursor' = Min(cursor + cfg.chunk_chars, Len(text))
                    /\ pc' = IF cursor' < Len(text) THEN "window" ELSE "after_loop"]_vars

\* in LLM-only mode a call has just failed in the middle of the text: its
\* window became a chapter and the loop goes on
C16_Witness ==
    /\ pc = "window"
    /\ cfg.llm_only
    /\ last.kind = "fail"
    /\ last.accepted = 1
    /\ carryover = <<>>
    /\ 0 < cursor /\ cursor < Len(text)

\* the elements of the set S of integers in ascending order
RECURSIVE Ascending(_)
Ascending(S) == IF S = {} THEN <<>> ELSE <<SetMin(S)>> \o Ascending(S \ {SetMin(S)})

\* C23: within each window, every accepted segment satisfies
\* 0 <= start < end <= leftover_from <= len(window) and start >= the end of the
\* previously accepted segment, its text is the local slice window[start:end]
\* (stripped), and the next carryover is exactly window[leftover_from:]; an
\* invalid segment is discarded and the segments after it are still looked at.
\* For every reply r that parses, S is the set of the positions of r's segments
\* that are accepted; a stall abort adds its chapters after them.
C23_SegmentValidation ==
    (pc = "window" /\ iterations < max_iterations) =>
        LET window == carryover \o Slice(text, cursor, Min(cursor + cfg.chunk_chars, Len(text)))
            wlen == Len(window)
        IN  \A r \in WinReplies(wlen) :
               r.kind = "ok" =>
                  LET segs == r.segments
                      lf == IF r.leftover.isint /\ 0 <= r.leftover.v /\ r.leftover.v <= wlen
                            THEN r.leftover.v ELSE wlen
                      slice(k) == Strip(SubSeq(window, segs[k].start + 1, segs[k].end))
                      lastEnd(S, k) == Max(0, SetMax({0} \cup {segs[j].end : j \in {i \in S : i < k}}))
                      valid(S, k) == /\ 0 <= segs[k].start /\ segs[k].start < segs[k].end
                                     /\ segs[k].end <= lf /\ lf <= wlen
                                     /\ segs[k].start >= lastEnd(S, k)
                                     /\ slice(k) # <<>>
                  IN  \E st \in {WinStep(r, text, cfg, WinState)} :
                      /\ st.carryover = SubSeq(window, lf + 1, wlen)
                      /\ \E S \in SUBSET (1..Len(segs)) :
                            /\ \A k \in 1..Len(segs) : k \in S <=> valid(S, k)
                            /\ SubSeq(st.chapters, 1,
                                      IF st.abort >= 0 THEN st.abort ELSE Len(st.chapters)) =
                                  chapters \o [i \in 1..Cardinality(S) |-> slice(Ascending(S)[i])]

\* a reply has just been processed of which two segments were accepted and
\* which left a carryover
C23_Witness ==
    /\ pc = "window"
    /\ last.kind = "ok"
    /\ last.accepted = 2
    /\ carryover # <<>>

\* C29: _split_chapters_with_llm terminates for every input and every
\* sequence of collaborator responses or failures, in both LLM-only and
\* fallback modes: the cursor never decreases, the loop body runs at most
\* max_iterations times, and past that bound the remaining text is emitted and
\* the loop left.
C29_Terminates ==
    /\ [][cursor' >= cursor]_vars
    /\ [](iterations <= max_iterations + 1)
    /\ [](pc = "window" => iterations <= max_iterations)
    /\ [][(pc = "window" /\ iterations = max_iterations /\ iterations' # iterations) =>
             /\ pc' = "after_loop"
             /\ chapters' = AppendStripped(chapters, carryover \o SliceFrom(text, cursor))]_vars
    /\ <>(pc = "done")

\* the loop was left at the iteration bound, and the function returned
C29_Witness ==
    /\ pc = "done"
    /\ iterations = max_iterations + 1
    /\ cursor = Len(text)
    /\ chapters # <<>>

\* C25: for a collaborator that never yields an accepted segment, whatever
\* leftover_from values it returns, the number of collaborator calls made by
\* one _split_chapters_with_llm invocation is at most the number of windows
\* ceil(text_len / chunk_chars) plus max_stall.  While the loop runs,
\* iterations counts the calls made, and with no chapter yet no segment was
\* accepted.
C25_BoundedCalls ==
    (pc = "window" /\ chapters = <<>>) =>
        iterations <= CeilDiv(Len(text), cfg.chunk_chars) + max_stall

\* C6: when the splitter aborts after two consecutive stalled iterations in
\* LLM-only mode, the remaining text is added exactly once: one chapter more
\* than before the abort, and no text in two returned segments.
C6_StallAbortOnce ==
    (WinReturned /\ cfg.llm_only /\ abort_count >= 0) =>
        /\ Len(chapters) = abort_count + 1
        /\ Len(NonWs(Concat(chapters))) <= Len(NonWs(text))

=============================================================================
